---- MODULE Spec2Model ----
(***************************************************************************)
(* A model of the alphavantage data-access layer: round-robin API-key      *)
(* rotation (business.ts getKey), the fetchers (business.ts pullStock and  *)
(* pullNews), the document-store helpers they write through (mongo.ts)     *)
(* and the cache-fill-on-miss query tool (mcp.ts get_stock_prices).        *)
(*                                                                         *)
(* Strings that the code inspects character by character (the .keylist     *)
(* content, date arguments, numeric payload fields) are tuples of          *)
(* one-character strings.  Messages that the code inspects with            *)
(* String.includes are tuples of tokens, cut so that every substring the   *)
(* code looks for is either one whole token or absent.                     *)
(***************************************************************************)
EXTENDS Integers, Sequences, FiniteSets, TLC

VARIABLES
    keylist,          \* the .keylist file: File(characters), or Absent
    apiKeys,          \* business.ts: let apiKeys: string[] = []
    currentKeyIndex,  \* business.ts: let currentKeyIndex = 0
    issued,           \* history: the values returned by getKey(), in order
    globalClient,     \* mongo.ts: globalClient (TRUE when connected)
    mongoClient,      \* mcp.ts: this.mongoClient (TRUE when connected)
    db,               \* database "finance": collection name -> documents
    pc,               \* per caller: the await it is suspended at
    call,             \* per caller: the operation in flight and its arguments
    local,            \* per caller: the locals of pullStock (todo, count)
    result,           \* per caller: what the operation returned or threw
    hist,             \* per caller, history: what the call in flight has done
    calls,            \* history: how many operations were started
    lastPull          \* history, per symbol: the pull that completed last

vars == <<keylist, apiKeys, currentKeyIndex, issued, globalClient, mongoClient, db,
          pc, call, local, result, hist, calls, lastPull>>

----------------------------------------------------------------------------
(* Bounds *)

\* Operations started in one run of the full system.
MaxCalls == 3
\* getKey() calls in one run of the key-rotation specification.
MaxKeyCalls == 5

\* Two callers, so that two operations can overlap (SSE transport).
Callers == {"a", "b"}

----------------------------------------------------------------------------
(* Values *)

\* TLC compares values of one kind only, so each "no value" has the kind of
\* the values it stands beside.
Absent == [exists |-> FALSE, content |-> <<>>]   \* the file does not exist
File(content) == [exists |-> TRUE, content |-> content]
Undefined == <<"undefined">>    \* JavaScript undefined, beside strings
NoError == <<>>                 \* no exception, beside messages
NoResult == [kind |-> "none"]   \* nothing returned yet

WhiteSpace == {" ", "\t", "\r"}
Digits == {"0", "1", "2", "3", "4", "5", "6", "7", "8", "9"}

----------------------------------------------------------------------------
(* Key management: business.ts getKey *)

\* String.prototype.split("\n")
RECURSIVE Split(_)
Split(s) ==
    IF \A i \in 1..Len(s) : s[i] # "\n"
    THEN <<s>>
    ELSE LET k == CHOOSE i \in 1..Len(s) :
                     s[i] = "\n" /\ \A j \in 1..(i - 1) : s[j] # "\n"
         IN  <<SubSeq(s, 1, k - 1)>> \o Split(SubSeq(s, k + 1, Len(s)))

\* String.prototype.trim()
RECURSIVE Trim(_)
Trim(s) ==
    IF s = <<>> THEN s
    ELSE IF s[1] \in WhiteSpace THEN Trim(Tail(s))
    ELSE IF s[Len(s)] \in WhiteSpace THEN Trim(SubSeq(s, 1, Len(s) - 1))
    ELSE s

\* A parse that keeps the blank lines.
ParseKeylist_KeepBlank(content) ==
    LET lines == Split(content)
    IN  [i \in 1..Len(lines) |-> Trim(lines[i])]

\* content.split("\n").map(line => line.trim()).filter(line => line.length > 0)
ParseKeylist(content) ==
    LET lines == Split(content)
        trimmed == [i \in 1..Len(lines) |-> Trim(lines[i])]
    IN  SelectSeq(trimmed, LAMBDA line : Len(line) > 0)

\* Array indexing apiKeys[i] with a zero-based index: undefined out of range.
KeyAt(keys, i) == IF i + 1 \in 1..Len(keys) THEN keys[i + 1] ELSE Undefined

\* A cursor that is advanced without wrapping.
NextIndex_NoWrap(i, n) == i + 1

\* A cursor that moves two positions at a time.
NextIndex_Skip(i, n) == (i + 2) % n

\* A cursor that wraps one position late.
NextIndex_WrapLate(i, n) == (i + 1) % (n + 1)

\* currentKeyIndex = (currentKeyIndex + 1) % apiKeys.length
NextIndex(i, n) == (i + 1) % n

\* Error messages of getKey, as token tuples.
MsgKeylistEmpty == <<".keylist", "file is empty">>
MsgKeylistNotFound == <<".keylist", "file not found">>
\* Bun's error for a missing file (ERROR-HANDLING-UPDATE.md line 8).
MsgENOENT == <<"ENOENT", ": no such file or directory, open '", ".keylist", "'">>

\* String.prototype.includes, on token tuples.
Includes(msg, token) == \E i \in 1..Len(msg) : msg[i] = token

\* The catch block of getKey: an error mentioning "No such file" is renamed.
GetKeyRethrow(msg) ==
    IF Includes(msg, "No such file") THEN MsgKeylistNotFound ELSE msg

\* await file.text(), then the rest of the if-block of getKey:
\* [pool |-> the new apiKeys, thrown |-> the error message, or NoError].
\* A missing file throws before apiKeys is assigned.
LoadKeys(file, oldKeys) ==
    IF ~file.exists
    THEN [pool |-> oldKeys, thrown |-> GetKeyRethrow(MsgENOENT)]
    ELSE LET keys == ParseKeylist(file.content)
         IN  IF Len(keys) = 0
             THEN [pool |-> keys, thrown |-> GetKeyRethrow(MsgKeylistEmpty)]
             ELSE [pool |-> keys, thrown |-> NoError]

----------------------------------------------------------------------------
(* Numbers: parseFloat and parseInt on character tuples *)

\* A JavaScript number that a decimal literal denotes: num / den with den a
\* power of ten and no trailing zero in the fraction; NaN has den 0.
NaN == [num |-> 0, den |-> 0]

DigitValue(c) ==
    CASE c = "0" -> 0 [] c = "1" -> 1 [] c = "2" -> 2 [] c = "3" -> 3
      [] c = "4" -> 4 [] c = "5" -> 5 [] c = "6" -> 6 [] c = "7" -> 7
      [] c = "8" -> 8 [] c = "9" -> 9

\* The longest prefix of s made of digits.
RECURSIVE DigitPrefix(_)
DigitPrefix(s) ==
    IF s # <<>> /\ s[1] \in Digits THEN <<s[1]>> \o DigitPrefix(Tail(s)) ELSE <<>>

RECURSIVE DigitsToNat(_)
DigitsToNat(ds) ==
    IF ds = <<>> THEN 0
    ELSE 10 * DigitsToNat(SubSeq(ds, 1, Len(ds) - 1)) + DigitValue(ds[Len(ds)])

RECURSIVE Pow10(_)
Pow10(k) == IF k = 0 THEN 1 ELSE 10 * Pow10(k - 1)

RECURSIVE Normalize(_)
Normalize(x) ==
    IF x.den > 1 /\ x.num % 10 = 0
    THEN Normalize([num |-> x.num \div 10, den |-> x.den \div 10])
    ELSE x

RECURSIVE SkipSpace(_)
SkipSpace(s) == IF s # <<>> /\ s[1] \in WhiteSpace THEN SkipSpace(Tail(s)) ELSE s

\* parseInt(s, 10): leading white space, an optional sign, then the longest
\* run of digits; NaN when there is no digit.  What follows is ignored.
ParseInt(s) ==
    LET t == SkipSpace(s)
        neg == t # <<>> /\ t[1] = "-"
        u == IF t # <<>> /\ t[1] \in {"-", "+"} THEN Tail(t) ELSE t
        ds == DigitPrefix(u)
    IN  IF ds = <<>> THEN NaN
        ELSE [num |-> (IF neg THEN -1 ELSE 1) * DigitsToNat(ds), den |-> 1]

\* parseFloat(s): leading white space, an optional sign, digits, and an
\* optional fraction; NaN when there is no digit.  What follows is ignored.
\* (Exponents and "Infinity" do not occur in the payloads modelled.)
ParseFloat(s) ==
    LET t == SkipSpace(s)
        neg == t # <<>> /\ t[1] = "-"
        u == IF t # <<>> /\ t[1] \in {"-", "+"} THEN Tail(t) ELSE t
        ip == DigitPrefix(u)
        rest == SubSeq(u, Len(ip) + 1, Len(u))
        fp == IF rest # <<>> /\ rest[1] = "." THEN DigitPrefix(Tail(rest)) ELSE <<>>
        sign == IF neg THEN -1 ELSE 1
    IN  IF ip = <<>> /\ fp = <<>> THEN NaN
        ELSE Normalize([num |-> sign * (DigitsToNat(ip) * Pow10(Len(fp)) + DigitsToNat(fp)),
                        den |-> Pow10(Len(fp))])

\* Template-literal rendering of a non-negative integer, as digit characters.
RECURSIVE Decimal(_)
Decimal(n) ==
    LET d == <<"0", "1", "2", "3", "4", "5", "6", "7", "8", "9">>
    IN  IF n < 10 THEN <<d[n + 1]>> ELSE Decimal(n \div 10) \o <<d[(n % 10) + 1]>>

----------------------------------------------------------------------------
(* Dates: mcp.ts formatStockDate *)

\* /^\d{8}$/.test(dateStr)
IsYYYYMMDD(s) == Len(s) = 8 /\ \A i \in 1..8 : s[i] \in Digits

MsgInvalidDate(s) == <<"Invalid date format: ">> \o s \o <<". Expected YYYYMMDD">>

\* A conversion that writes the month where the day belongs.
FormatStockDate_MonthTwice(s) ==
    SubSeq(s, 1, 4) \o <<"-">> \o SubSeq(s, 5, 6) \o <<"-">> \o SubSeq(s, 5, 6)

\* `${dateStr.slice(0, 4)}-${dateStr.slice(4, 6)}-${dateStr.slice(6, 8)}`
FormatStockDate(s) ==
    SubSeq(s, 1, 4) \o <<"-">> \o SubSeq(s, 5, 6) \o <<"-">> \o SubSeq(s, 7, 8)

\* if (date): undefined and the empty string are falsy.
Truthy(s) == s # Undefined /\ s # <<>>

\* Code-unit order of the characters that dates and time stamps are made of.
CharCode(c) == IF c = "-" THEN 45 ELSE IF c = "T" THEN 84 ELSE 48 + DigitValue(c)

\* String comparison a < b, as MongoDB sorts strings (simple binary order).
RECURSIVE StrLess(_, _)
StrLess(a, b) ==
    IF b = <<>> THEN FALSE
    ELSE IF a = <<>> THEN TRUE
    ELSE IF a[1] = b[1] THEN StrLess(Tail(a), Tail(b))
    ELSE CharCode(a[1]) < CharCode(b[1])

----------------------------------------------------------------------------
(* The document store: mongo.ts *)

MsgNotConnected == <<"Not connected to MongoDB. Call connect() first.">>

\* `stock-${symbol}`
StockCollection(symbol) == <<"stock-", symbol>>

\* col.find({ date: d }).toArray()
FindByDate(docs, d) == SelectSeq(docs, LAMBDA doc : doc.date = d)

\* Two sequences ordered by date descending merged into one; of documents
\* with the same date those of a come first.
RECURSIVE MergeByDateDesc(_, _)
MergeByDateDesc(a, b) ==
    IF a = <<>> THEN b
    ELSE IF b = <<>> THEN a
    ELSE LET m == (Len(a) + 1) \div 2
             k == Cardinality({j \in 1..Len(b) : StrLess(a[m].date, b[j].date)})
         IN  MergeByDateDesc(SubSeq(a, 1, m - 1), SubSeq(b, 1, k))
                 \o <<a[m]>>
                 \o MergeByDateDesc(SubSeq(a, m + 1, Len(a)), SubSeq(b, k + 1, Len(b)))

\* The documents of docs ordered by date descending (ties keep their order).
RECURSIVE SortByDateDesc(_)
SortByDateDesc(docs) ==
    IF Len(docs) <= 1 THEN docs
    ELSE LET h == Len(docs) \div 2
         IN  MergeByDateDesc(SortByDateDesc(SubSeq(docs, 1, h)),
                             SortByDateDesc(SubSeq(docs, h + 1, Len(docs))))

\* cursor.limit(n)
Limit(docs, n) == SubSeq(docs, 1, IF Len(docs) < n THEN Len(docs) ELSE n)

\* processGetStockPrices: limit: 100
LatestLimit == 100

\* A read of the first 100 records in stored order.
FindLatest_Unsorted(docs) == Limit(docs, LatestLimit)

\* col.find({}).sort({ date: -1 }).limit(100).toArray()
FindLatest(docs) == Limit(SortByDateDesc(docs), LatestLimit)

\* A filter of field values, as the fetchers and the tests pass it: a
\* document matches when it has each field of the filter with that value.
MatchesFilter(doc, filter) ==
    \A f \in DOMAIN filter : f \in DOMAIN doc /\ doc[f] = filter[f]

\* An upsert that leaves a matched document as it is.
UpsertDocument_KeepFirst(docs, filter, doc) ==
    IF \E i \in 1..Len(docs) : MatchesFilter(docs[i], filter)
    THEN docs
    ELSE Append(docs, doc)

\* An upsert that sets the fields of doc in the matched document ($set).
UpsertDocument_Merge(docs, filter, doc) ==
    IF \E i \in 1..Len(docs) : MatchesFilter(docs[i], filter)
    THEN LET k == CHOOSE i \in 1..Len(docs) :
                     /\ MatchesFilter(docs[i], filter)
                     /\ \A j \in 1..(i - 1) : ~MatchesFilter(docs[j], filter)
         IN  [docs EXCEPT ![k] =
                 [f \in DOMAIN docs[k] \cup DOMAIN doc |->
                     IF f \in DOMAIN doc THEN doc[f] ELSE docs[k][f]]]
    ELSE Append(docs, doc)

\* upsertDocument: col.replaceOne(filter, doc, { upsert: true }).  The first
\* document that matches the filter is replaced by doc as a whole; with no
\* match doc is inserted.  (The _id MongoDB adds and keeps is left out of the
\* documents.)
UpsertDocument(docs, filter, doc) ==
    IF \E i \in 1..Len(docs) : MatchesFilter(docs[i], filter)
    THEN LET k == CHOOSE i \in 1..Len(docs) :
                     /\ MatchesFilter(docs[i], filter)
                     /\ \A j \in 1..(i - 1) : ~MatchesFilter(docs[j], filter)
         IN  [docs EXCEPT ![k] = doc]
    ELSE Append(docs, doc)

\* An upsert that inserts without looking for a match.
ReplaceOneUpsert_InsertOnly(docs, d, doc) == Append(docs, doc)

\* upsertDocument("finance", collectionName, { date }, stockDoc)
ReplaceOneUpsert(docs, d, doc) == UpsertDocument(docs, [date |-> d], doc)

----------------------------------------------------------------------------
(* The stock fetcher: business.ts pullStock *)

\* A document whose prices are parsed as integers.
StockDoc_IntPrices(symbol, date, values) ==
    [symbol |-> symbol,
     date   |-> date,
     open   |-> ParseInt(values.open),
     high   |-> ParseInt(values.high),
     low    |-> ParseInt(values.low),
     close  |-> ParseInt(values.close),
     volume |-> ParseInt(values.volume)]

\* The StockData document built from one entry of the time series.
StockDoc(symbol, date, values) ==
    [symbol |-> symbol,
     date   |-> date,
     open   |-> ParseFloat(values.open),
     high   |-> ParseFloat(values.high),
     low    |-> ParseFloat(values.low),
     close  |-> ParseFloat(values.close),
     volume |-> ParseInt(values.volume)]

\* A check that lets a body with an error field through.
PullStockError_IgnoreApiError(resp) ==
    CASE resp.kind = "transport" -> <<"Failed to fetch stock data: ">> \o resp.text
      [] resp.kind = "status" -> <<"API request failed with status ">> \o resp.text
      [] resp.kind = "badJson" -> <<"Failed to parse API response as JSON: ">> \o resp.text
      [] resp.kind = "noSeries" ->
            <<"Invalid API response: missing 'Time Series (Daily)' field">>
      [] OTHER -> NoError

\* A check that takes an empty time series for a missing one.
PullStockError_EmptyIsMissing(resp) ==
    CASE resp.kind = "transport" -> <<"Failed to fetch stock data: ">> \o resp.text
      [] resp.kind = "status" -> <<"API request failed with status ">> \o resp.text
      [] resp.kind = "badJson" -> <<"Failed to parse API response as JSON: ">> \o resp.text
      [] resp.kind = "apiError" -> <<"Alpha Vantage API error: ">> \o resp.text
      [] resp.kind = "ok" /\ resp.series # <<>> -> NoError
      [] OTHER -> <<"Invalid API response: missing 'Time Series (Daily)' field">>

\* The message pullStock throws for a response that is no time series
\* (NoError for a response with the "Time Series (Daily)" field).
PullStockError(resp) ==
    CASE resp.kind = "transport" -> <<"Failed to fetch stock data: ">> \o resp.text
      [] resp.kind = "status" -> <<"API request failed with status ">> \o resp.text
      [] resp.kind = "badJson" -> <<"Failed to parse API response as JSON: ">> \o resp.text
      [] resp.kind = "apiError" -> <<"Alpha Vantage API error: ">> \o resp.text
      [] resp.kind = "noSeries" ->
            <<"Invalid API response: missing 'Time Series (Daily)' field">>
      [] resp.kind = "ok" -> NoError

----------------------------------------------------------------------------
(* The query tool: mcp.ts processGetStockPrices *)

\* The data field of a result: a list of documents, one document, or null.
ListData(docs) == [type |-> "list", items |-> docs]
DocData(doc) == [type |-> "doc", items |-> <<doc>>]
NullData == [type |-> "null", items |-> <<>>]

TagFresh == " (freshly pulled from API)"
TagEvenAfter == " (even after pulling from API)"
MsgMissingKeylist == <<"Missing .keylist file">>

\* The first and the repeated read: by exact date if a date is given, else
\* the latest 100.
ReadPrices(docs, date) ==
    IF Truthy(date) THEN FindByDate(docs, FormatStockDate(date)) ELSE FindLatest(docs)

\* A result that never says where the records came from.
FoundResult_NoTag(symbol, date, docs, tag) ==
    IF Truthy(date)
    THEN [message |-> <<"Stock data for ", symbol, " on ">> \o FormatStockDate(date),
          data |-> DocData(docs[1])]
    ELSE [message |-> <<"Found ">> \o Decimal(Len(docs))
                         \o <<" stock price records for ", symbol>>,
          data |-> ListData(docs)]

\* The result for records found; tag is "" for the first read and TagFresh
\* for the read after a pull.
FoundResult(symbol, date, docs, tag) ==
    IF Truthy(date)
    THEN [message |-> <<"Stock data for ", symbol, " on ">> \o FormatStockDate(date)
                         \o (IF tag = "" THEN <<>> ELSE <<tag>>),
          data |-> DocData(docs[1])]
    ELSE [message |-> <<"Found ">> \o Decimal(Len(docs))
                         \o <<" stock price records for ", symbol>>
                         \o (IF tag = "" THEN <<>> ELSE <<tag>>),
          data |-> ListData(docs)]

\* A second read that reports its empty outcome as a failure.
NotFoundResult_AsError(symbol, date) ==
    [message |-> <<"No stock data found for ", symbol, TagEvenAfter>>,
     data |-> NullData,
     error |-> <<"No data">>]

\* The result when the read after a successful pull is still empty.
NotFoundResult(symbol, date) ==
    IF Truthy(date)
    THEN [message |-> <<"No stock data found for ", symbol, " on ">>
                         \o FormatStockDate(date) \o <<TagEvenAfter>>,
          data |-> NullData]
    ELSE [message |-> <<"No stock data found for ", symbol, TagEvenAfter>>,
          data |-> ListData(<<>>)]

\* errorMessage.includes('.keylist') || errorMessage.includes('ENOENT')
IsKeylistError(msg) == Includes(msg, ".keylist") \/ Includes(msg, "ENOENT")

\* A catch block that answers every failure with data: null.
FailureData_AlwaysNull(date) == NullData

\* The data field of the catch blocks: null in the date branch, [] otherwise.
FailureData(date) == IF Truthy(date) THEN NullData ELSE ListData(<<>>)

\* The catch block around pullStock and the repeated read.
CatchAutoPull(symbol, date, msg) ==
    IF IsKeylistError(msg)
    THEN [message |-> <<"No stock data found for ", symbol,
                        ". Auto-pull failed: ", ".keylist",
                        " file not found. Please create a .keylist file with your Alpha Vantage API key(s), or manually pull the data using: bun src/run-stocks.ts --pull-stock ",
                        symbol>>,
          data |-> FailureData(date),
          error |-> MsgMissingKeylist]
    ELSE [message |-> <<"No stock data found for ", symbol, ". Auto-pull failed: ">> \o msg,
          data |-> FailureData(date),
          error |-> msg]

\* A handler without its catch block: the exception leaves the handler.
ToolError_Rethrow(msg) == [kind |-> "thrown", message |-> msg]

\* What the call-tool handler sends: the result as text, or its catch block.
ToolResult(body) == [kind |-> "tool", isError |-> FALSE, body |-> body]
ToolError(msg) == [kind |-> "tool", isError |-> TRUE, text |-> <<"Error: ">> \o msg]
\* What a function called directly gives its caller.
Returned(v) == [kind |-> "returned", value |-> v]
Thrown(msg) == [kind |-> "thrown", message |-> msg]

\* A first read that is taken for a miss while it finds fewer than two records.
IsMiss_Incomplete(docs) == Len(docs) < 2

\* A first read that is always taken for a miss.
IsMiss_Always(docs) == TRUE

\* if (docs.length === 0)
IsMiss(docs) == Len(docs) = 0

----------------------------------------------------------------------------
(* Caller state *)

NoCall == [op |-> "none", symbol |-> "", date |-> Undefined]
NoLocal == [todo |-> <<>>, count |-> 0]
NoFail == [kind |-> "none", message |-> NoError]
NoPull == [valid |-> FALSE, series |-> <<>>, count |-> 0]
\* History of the call in flight: how often it called pullStock, drew a key,
\* reached the remote API and paced; how many cache reads it sent; the size
\* of its first read (-1: none);
\* the count its pullStock returned (-1: none);
\* the time series it fetched; why its pull failed; the partition as its pull
\* found it; the pull that completed just before; whether its pull ran
\* without another pull of the same symbol in flight.
NoHist == [pulls |-> 0, draws |-> 0, fetches |-> 0, paces |-> 0, reads |-> 0, read1 |-> -1,
           pulled |-> -1,
           fetched |-> "none", series |-> <<>>, fail |-> NoFail,
           before |-> <<>>, prev |-> NoPull, clean |-> TRUE]

\* The history that is kept once the pull of a call is over.
EndPull(h) == [h EXCEPT !.series = <<>>, !.before = <<>>, !.prev = NoPull, !.clean = TRUE]

InPull(q) == pc[q] \in {"loadKeys", "fetch", "upsert", "pace"} /\ call[q].op # "getKey"

\* A draw that returns the key at the cursor and leaves the cursor there.
IssueKey_NoAdvance(keys) ==
    /\ issued' = Append(issued, KeyAt(keys, currentKeyIndex))
    /\ currentKeyIndex' = currentKeyIndex

\* The tail of getKey: const key = apiKeys[currentKeyIndex]; advance; return.
\* It runs without suspension, so it is one step with whatever precedes it.
IssueKey(keys) ==
    /\ issued' = Append(issued, KeyAt(keys, currentKeyIndex))
    /\ currentKeyIndex' = NextIndex(currentKeyIndex, Len(keys))

\* A try block that lets the exception through.
PullFailure_Propagate(c, msg) == Thrown(msg)

\* What the caller c gets when pullStock (or the read after it) throws msg:
\* the try block of processGetStockPrices catches it, a direct caller sees
\* the exception.
PullFailure(c, msg) ==
    IF c.op = "get_stock_prices"
    THEN ToolResult(CatchAutoPull(c.symbol, c.date, msg))
    ELSE Thrown(msg)

\* The call of p ends with the exception msg thrown in pullStock.
Failed(p, kind, msg) ==
    /\ pc' = [pc EXCEPT ![p] = "done"]
    /\ result' = [result EXCEPT ![p] = PullFailure(call[p], msg)]
    /\ local' = [local EXCEPT ![p] = NoLocal]
    /\ hist' = [hist EXCEPT ![p] = EndPull([hist[p] EXCEPT
                                       !.fail = [kind |-> kind, message |-> msg]])]

\* getKey() called directly (business.test.ts "Key Management").
\* With a loaded pool it returns at once; otherwise it suspends at file.text().
GetKeyCall(p) ==
    /\ pc[p] = "idle"
    /\ calls < MaxKeyCalls
    /\ calls' = calls + 1
    /\ call' = [call EXCEPT ![p] = [NoCall EXCEPT !.op = "getKey"]]
    /\ IF Len(apiKeys) = 0
       THEN /\ pc' = [pc EXCEPT ![p] = "loadKeys"]
            /\ UNCHANGED <<issued, currentKeyIndex, result, hist>>
       ELSE /\ IssueKey(apiKeys)
            /\ pc' = [pc EXCEPT ![p] = "done"]
            /\ result' = [result EXCEPT ![p] = Returned(KeyAt(apiKeys, currentKeyIndex))]
            /\ hist' = [hist EXCEPT ![p].draws = 1]
    /\ UNCHANGED <<keylist, apiKeys, globalClient, mongoClient, db, local, lastPull>>

\* pullStock(symbol) starts: const apiKey = await getKey().  With a loaded
\* pool the key is issued and fetch(url) is called in the same step.
BeginPull(p, symbol) ==
    /\ lastPull' = [lastPull EXCEPT ![symbol] = NoPull]
    /\ hist' = [q \in Callers |->
          IF q = p
          THEN [hist[p] EXCEPT
                  !.pulls = @ + 1,
                  !.draws = IF Len(apiKeys) = 0 THEN @ ELSE @ + 1,
                  !.before = db[StockCollection(symbol)],
                  !.prev = lastPull[symbol],
                  !.clean = \A r \in Callers \ {p} :
                                ~(InPull(r) /\ call[r].symbol = symbol)]
          ELSE IF InPull(q) /\ call[q].symbol = symbol
               THEN [hist[q] EXCEPT !.clean = FALSE]
               ELSE hist[q]]
    /\ IF Len(apiKeys) = 0
       THEN /\ pc' = [pc EXCEPT ![p] = "loadKeys"]
            /\ UNCHANGED <<issued, currentKeyIndex>>
       ELSE /\ IssueKey(apiKeys)
            /\ pc' = [pc EXCEPT ![p] = "fetch"]

\* pullStock(symbol) called directly by a program that has connected to the
\* store (run-stocks.ts main, the tests' beforeAll).
PullStockCall(p, symbol) ==
    /\ pc[p] = "idle"
    /\ calls < MaxCalls
    /\ calls' = calls + 1
    /\ call' = [call EXCEPT ![p] = [op |-> "pullStock", symbol |-> symbol, date |-> Undefined]]
    /\ globalClient' = TRUE
    /\ BeginPull(p, symbol)
    /\ UNCHANGED <<keylist, apiKeys, mongoClient, db, local, result>>

\* The call-tool handler for get_stock_prices, up to the first read:
\* connect when the server has no client yet (connectErr: the outcome),
\* formatStockDate when a date is given, findDocuments (findErr: the outcome).
\* Records found are returned at once; on a miss the caller is about to
\* call pullStock.
GetStockPricesCall(p, symbol, date, connectErr, findErr) ==
    /\ pc[p] = "idle"
    /\ calls < MaxCalls
    /\ calls' = calls + 1
    /\ call' = [call EXCEPT ![p] = [op |-> "get_stock_prices", symbol |-> symbol, date |-> date]]
    /\ LET connects == ~mongoClient
           connected == ~connects \/ connectErr = NoError
           docs == ReadPrices(db[StockCollection(symbol)], date)
           outcome ==
              IF ~connected
              THEN ToolError(<<"Failed to connect to MongoDB: ">> \o connectErr)
              ELSE IF Truthy(date) /\ ~IsYYYYMMDD(date)
              THEN ToolError(MsgInvalidDate(date))
              ELSE IF findErr # NoError THEN ToolError(findErr)
              ELSE IF IsMiss(docs) THEN NoResult
              ELSE ToolResult(FoundResult(symbol, date, docs, ""))
       IN  /\ mongoClient' = (mongoClient \/ connected)
           /\ globalClient' = (globalClient \/ (connects /\ connected))
           /\ result' = [result EXCEPT ![p] = outcome]
           /\ pc' = [pc EXCEPT ![p] = IF outcome = NoResult THEN "miss" ELSE "done"]
           /\ hist' = [hist EXCEPT
                         ![p].read1 = IF outcome.kind = "tool" /\ outcome.isError
                                      THEN -1 ELSE Len(docs),
                         ![p].reads = IF connected /\ (Truthy(date) => IsYYYYMMDD(date))
                                      THEN 1 ELSE 0]
    /\ UNCHANGED <<keylist, apiKeys, currentKeyIndex, issued, db, local, lastPull>>

\* A server that knows of the pulls in flight and holds a miss back.
PullInFlight_Tracked(p, symbol) ==
    \E q \in Callers \ {p} : InPull(q) /\ call[q].symbol = symbol

\* What processGetStockPrices knows, on a miss, of a pull of the symbol by
\* another request: nothing, it keeps no record of the pulls in flight.
PullInFlight(p, symbol) == FALSE

\* The first read was empty: processGetStockPrices calls pullStock(symbol).
AutoPull(p) ==
    /\ pc[p] = "miss"
    /\ ~PullInFlight(p, call[p].symbol)
    /\ BeginPull(p, call[p].symbol)
    /\ UNCHANGED <<keylist, apiKeys, globalClient, mongoClient, db, call, local, result, calls>>

\* file.text() resolves or rejects; getKey finishes and its caller goes on:
\* a direct caller has its key, pullStock calls fetch(url).
KeylistRead(p) ==
    /\ pc[p] = "loadKeys"
    /\ LET load == LoadKeys(keylist, apiKeys)
       IN  /\ apiKeys' = load.pool
           /\ IF load.thrown # NoError
              THEN /\ Failed(p, "config", load.thrown)
                   /\ UNCHANGED <<issued, currentKeyIndex>>
              ELSE /\ IssueKey(load.pool)
                   /\ hist' = [hist EXCEPT ![p].draws = @ + 1]
                   /\ UNCHANGED local
                   /\ IF call[p].op = "getKey"
                      THEN /\ pc' = [pc EXCEPT ![p] = "done"]
                           /\ result' = [result EXCEPT ![p] =
                                  Returned(KeyAt(load.pool, currentKeyIndex))]
                      ELSE /\ pc' = [pc EXCEPT ![p] =
                                  IF call[p].op = "pullNews" THEN "newsFetch" ELSE "fetch"]
                           /\ UNCHANGED result
    /\ UNCHANGED <<keylist, globalClient, mongoClient, db, call, calls, lastPull>>

\* fetch(url) and response.json() are over: resp is what the remote API gave.
\* A response without a time series makes pullStock throw.  Otherwise the loop
\* starts: upsertDocument throws at once when there is no client, else the
\* first replaceOne is sent.  An empty series goes straight to the delay.
FetchReturn(p, resp) ==
    /\ pc[p] = "fetch"
    /\ LET err == PullStockError(resp)
           seen == [hist[p] EXCEPT !.fetches = @ + 1, !.fetched = resp.kind,
                                   !.series = resp.series]
           threw == IF err # NoError THEN [kind |-> resp.kind, message |-> err]
                    ELSE IF resp.series # <<>> /\ ~globalClient
                    THEN [kind |-> "cache", message |-> MsgNotConnected]
                    ELSE NoFail
       IN  IF threw # NoFail
           THEN /\ pc' = [pc EXCEPT ![p] = "done"]
                /\ result' = [result EXCEPT ![p] = PullFailure(call[p], threw.message)]
                /\ hist' = [hist EXCEPT ![p] = EndPull([seen EXCEPT !.fail = threw])]
                /\ UNCHANGED local
           ELSE /\ pc' = [pc EXCEPT ![p] = IF resp.series = <<>> THEN "pace" ELSE "upsert"]
                /\ local' = [local EXCEPT ![p] = [todo |-> resp.series, count |-> 0]]
                /\ hist' = [hist EXCEPT ![p] = seen]
                /\ UNCHANGED result
    /\ UNCHANGED <<keylist, apiKeys, currentKeyIndex, issued, globalClient, mongoClient,
                   db, call, calls, lastPull>>

\* A failure that undoes what the call has stored.
KeptOnFailure_Rollback(docs, before) == before

\* The partition after an upsert of the loop has thrown: the exception leaves
\* pullStock / pullNews with nothing to undo the earlier upserts.
KeptOnFailure(docs, before) == docs

\* One replaceOne of the loop is over (err: its outcome).  A failure leaves
\* the loop by exception; otherwise the document is stored, count++ and the
\* next replaceOne is sent, or after the last one the delay starts.
UpsertReturn(p, err) ==
    /\ pc[p] = "upsert"
    /\ IF err # NoError
       THEN /\ Failed(p, "cache", err)
            /\ db' = [db EXCEPT ![StockCollection(call[p].symbol)] =
                         KeptOnFailure(@, hist[p].before)]
       ELSE LET entry == Head(local[p].todo)
                rest == Tail(local[p].todo)
                coll == StockCollection(call[p].symbol)
            IN  /\ db' = [db EXCEPT ![coll] =
                      ReplaceOneUpsert(db[coll], entry.date,
                                       StockDoc(call[p].symbol, entry.date, entry.values))]
                /\ local' = [local EXCEPT ![p] =
                      [todo |-> rest, count |-> local[p].count + 1]]
                /\ pc' = [pc EXCEPT ![p] = IF rest = <<>> THEN "pace" ELSE "upsert"]
                /\ UNCHANGED <<result, hist>>
    /\ UNCHANGED <<keylist, apiKeys, currentKeyIndex, issued, globalClient, mongoClient,
                   call, calls, lastPull>>

\* waitAfterApiCall() is over and pullStock returns count: to its caller, or
\* to processGetStockPrices, which sends the identical read again.
PaceDone(p) ==
    /\ pc[p] = "pace"
    /\ hist' = [hist EXCEPT ![p] = EndPull([hist[p] EXCEPT
                      !.paces = @ + 1,
                      !.pulled = local[p].count,
                      !.reads = IF call[p].op = "get_stock_prices" THEN @ + 1 ELSE @])]
    /\ lastPull' = [lastPull EXCEPT ![call[p].symbol] =
          IF hist[p].clean
          THEN [valid |-> TRUE, series |-> hist[p].series, count |-> local[p].count]
          ELSE NoPull]
    /\ local' = [local EXCEPT ![p] = NoLocal]
    /\ IF call[p].op = "get_stock_prices"
       THEN /\ pc' = [pc EXCEPT ![p] = "reread"]
            /\ UNCHANGED result
       ELSE /\ pc' = [pc EXCEPT ![p] = "done"]
            /\ result' = [result EXCEPT ![p] = Returned(local[p].count)]
    /\ UNCHANGED <<keylist, apiKeys, currentKeyIndex, issued, globalClient, mongoClient,
                   db, call, calls>>

\* A second read that, finding nothing, starts the cache fill over.
AfterReread_Retry(docs) == IF Len(docs) = 0 THEN "miss" ELSE "done"

\* Where processGetStockPrices goes with the answer of its second read: both
\* branches of if (docs.length === 0) are return statements.
AfterReread(docs) == "done"

\* The read after the pull is over (err: its outcome); it is inside the try
\* block, so its failure is answered like a failure of pullStock.
Reread(p, err) ==
    /\ pc[p] = "reread"
    /\ LET docs == ReadPrices(db[StockCollection(call[p].symbol)], call[p].date)
       IN  IF err # NoError
           THEN Failed(p, "cache", err)
           ELSE /\ pc' = [pc EXCEPT ![p] = AfterReread(docs)]
                /\ result' = [result EXCEPT ![p] = ToolResult(
                      IF Len(docs) = 0
                      THEN NotFoundResult(call[p].symbol, call[p].date)
                      ELSE FoundResult(call[p].symbol, call[p].date, docs, TagFresh))]
                /\ UNCHANGED <<hist, local>>
    /\ UNCHANGED <<keylist, apiKeys, currentKeyIndex, issued, globalClient, mongoClient,
                   db, call, calls, lastPull>>

\* The caller takes the result; its frame is gone.
Return(p) ==
    /\ pc[p] = "done"
    /\ pc' = [pc EXCEPT ![p] = "idle"]
    /\ call' = [call EXCEPT ![p] = NoCall]
    /\ local' = [local EXCEPT ![p] = NoLocal]
    /\ result' = [result EXCEPT ![p] = NoResult]
    /\ hist' = [hist EXCEPT ![p] = NoHist]
    /\ UNCHANGED <<keylist, apiKeys, currentKeyIndex, issued, globalClient, mongoClient,
                   db, calls, lastPull>>

----------------------------------------------------------------------------
(* Inputs: symbols, dates, remote responses, store outcomes *)

Symbols == {"IBM", "XYZ"}

Date_1222 == <<"2", "0", "2", "5", "-", "1", "2", "-", "2", "2">>
Date_1223 == <<"2", "0", "2", "5", "-", "1", "2", "-", "2", "3">>

\* The date argument of get_stock_prices: omitted, empty, a trading day in
\* YYYYMMDD, and a malformed string.
DateArgs ==
    { Undefined,
      <<>>,
      <<"2", "0", "2", "5", "1", "2", "2", "2">>,
      <<"2", "0", "2", "5", "1", "2", "2", "x">> }

\* The five string-encoded fields of one day (the spec's AAPL scenario, and
\* a second quote with trailing zeros).
Quote_A ==
    [open   |-> <<"2", "7", "0", ".", "9", "7">>,
     high   |-> <<"2", "7", "2", ".", "4", "5">>,
     low    |-> <<"2", "6", "9", ".", "5", "6">>,
     close  |-> <<"2", "7", "2", ".", "3", "6">>,
     volume |-> <<"2", "9", "3", "6", "0", "0", "2", "6">>]
Quote_B ==
    [open   |-> <<"2", "7", "1", ".", "5", "0">>,
     high   |-> <<"2", "7", "3", ".", "0", "0">>,
     low    |-> <<"2", "7", "0", ".", "1", "0">>,
     close  |-> <<"2", "7", "2">>,
     volume |-> <<"3", "1", "0", "0", "0">>]

Entry(d, v) == [date |-> d, values |-> v]

\* Object.entries(timeSeries): the days of a response, each date once, in the
\* order of the JSON text.
SeriesSet ==
    { <<>>,
      <<Entry(Date_1223, Quote_A)>>,
      <<Entry(Date_1222, Quote_A), Entry(Date_1223, Quote_B)>> }

Response(kind, text, series) == [kind |-> kind, text |-> text, series |-> series]

\* What fetch(url) and response.json() can give when the request fails or the
\* provider has no series for the symbol.
FailureResponses ==
    { Response("transport", <<"Unable to connect. Is the computer able to access the url?">>, <<>>),
      Response("status", <<"503", ": ", "Service Unavailable">>, <<>>),
      Response("badJson", <<"Unexpected token < in JSON at position 0">>, <<>>),
      Response("apiError", <<"Invalid API call. Please retry or visit the documentation for TIME_SERIES_DAILY.">>, <<>>),
      Response("noSeries", <<>>, <<>>) }

\* What fetch(url) and response.json() can give for a symbol: the provider
\* lists IBM; for any other symbol it has at most an empty series.
Responses(symbol) ==
    FailureResponses
    \cup {Response("ok", <<>>, e) : e \in (IF symbol = "IBM" THEN SeriesSet ELSE {<<>>})}

\* The outcome of one call to the MongoDB driver: success (NoError) or the
\* message of the driver's error: a dropped connection, or a server whose
\* Unix socket is gone.
CacheOutcomes ==
    { NoError,
      <<"connection 1 to 127.0.0.1:27017 closed">>,
      <<"connect ", "ENOENT", " /tmp/mongodb-27017.sock">> }

----------------------------------------------------------------------------
(* The news fetcher: business.ts pullNews *)

\* JSON values of an article, each with its JavaScript type beside it:
\* a field that is absent reads as undefined.
JsUndefined == [t |-> "undefined", v |-> <<>>]
JsNull == [t |-> "null", v |-> <<>>]
JsString(text) == [t |-> "string", v |-> text]
JsNumber(digits) == [t |-> "number", v |-> digits]
JsArray(items) == [t |-> "array", v |-> items]

\* Truthiness: undefined, null and "" are falsy; every array is truthy.
JsTruthy(x) == x.t \notin {"undefined", "null"} /\ ~(x.t = "string" /\ x.v = <<>>)

\* x || d
JsOr(x, d) == IF JsTruthy(x) THEN x ELSE d

\* String(x), which parseFloat applies to its argument first.
JsToString(x) ==
    CASE x.t \in {"string", "number"} -> x.v
      [] x.t = "null" -> <<"n", "u", "l", "l">>
      [] OTHER -> <<"u", "n", "d", "e", "f", "i", "n", "e", "d">>

NewsCollection == <<"news">>

\* A document that copies every field as it is.
NewsDoc_NoDefaults(item) ==
    [title |-> item.title,
     url |-> item.url,
     time_published |-> item.time_published,
     authors |-> item.authors,
     summary |-> item.summary,
     banner_image |-> item.banner_image,
     source |-> item.source,
     category_within_source |-> item.category_within_source,
     source_domain |-> item.source_domain,
     topics |-> item.topics,
     overall_sentiment_score |-> ParseFloat(JsToString(item.overall_sentiment_score)),
     overall_sentiment_label |-> item.overall_sentiment_label,
     ticker_sentiment |-> item.ticker_sentiment]

\* The NewsItem document built from one article of the feed.
NewsDoc(item) ==
    [title |-> item.title,
     url |-> item.url,
     time_published |-> item.time_published,
     authors |-> JsOr(item.authors, JsArray(<<>>)),
     summary |-> item.summary,
     banner_image |-> JsOr(item.banner_image, JsNull),
     source |-> item.source,
     category_within_source |-> item.category_within_source,
     source_domain |-> item.source_domain,
     topics |-> JsOr(item.topics, JsArray(<<>>)),
     overall_sentiment_score |-> ParseFloat(JsToString(item.overall_sentiment_score)),
     overall_sentiment_label |-> item.overall_sentiment_label,
     ticker_sentiment |-> JsOr(item.ticker_sentiment, JsArray(<<>>))]

\* An upsert by time stamp that inserts without looking for a match.
ReplaceOneByTime_InsertOnly(docs, t, doc) == Append(docs, doc)

\* upsertDocument("finance", "news", { time_published: t }, newsDoc)
ReplaceOneByTime(docs, t, doc) == UpsertDocument(docs, [time_published |-> t], doc)

\* A check that takes any feed field for a list.
PullNewsError_AnyFeed(resp) ==
    CASE resp.kind = "transport" -> <<"Failed to fetch news data: ">> \o resp.text
      [] resp.kind = "status" -> <<"API request failed with status ">> \o resp.text
      [] resp.kind = "badJson" -> <<"Failed to parse API response as JSON: ">> \o resp.text
      [] resp.kind = "apiError" -> <<"Alpha Vantage API error: ">> \o resp.text
      [] resp.kind = "noFeed" -> <<"Invalid API response: missing or invalid 'feed' field">>
      [] OTHER -> NoError

\* The message pullNews throws for a response that is no feed (NoError for a
\* response whose feed field is an array).
PullNewsError(resp) ==
    CASE resp.kind = "transport" -> <<"Failed to fetch news data: ">> \o resp.text
      [] resp.kind = "status" -> <<"API request failed with status ">> \o resp.text
      [] resp.kind = "badJson" -> <<"Failed to parse API response as JSON: ">> \o resp.text
      [] resp.kind = "apiError" -> <<"Alpha Vantage API error: ">> \o resp.text
      [] resp.kind \in {"noFeed", "badFeed"} ->
            <<"Invalid API response: missing or invalid 'feed' field">>
      [] resp.kind = "ok" -> NoError

InNews(q) == call[q].op = "pullNews" /\ pc[q] \notin {"idle", "done"}

\* pullNews(time_from, time_to) called directly by a program that has
\* connected to the store: const apiKey = await getKey(), then fetch(url).
PullNewsCall(p) ==
    /\ pc[p] = "idle"
    /\ calls < MaxCalls
    /\ calls' = calls + 1
    /\ call' = [call EXCEPT ![p] = [op |-> "pullNews", symbol |-> "", date |-> Undefined]]
    /\ globalClient' = TRUE
    /\ hist' = [q \in Callers |->
          IF q = p
          THEN [hist[p] EXCEPT
                  !.pulls = @ + 1,
                  !.draws = IF Len(apiKeys) = 0 THEN @ ELSE @ + 1,
                  !.before = db[NewsCollection],
                  !.clean = \A r \in Callers \ {p} : ~InNews(r)]
          ELSE IF InNews(q) THEN [hist[q] EXCEPT !.clean = FALSE] ELSE hist[q]]
    /\ IF Len(apiKeys) = 0
       THEN /\ pc' = [pc EXCEPT ![p] = "loadKeys"]
            /\ UNCHANGED <<issued, currentKeyIndex>>
       ELSE /\ IssueKey(apiKeys)
            /\ pc' = [pc EXCEPT ![p] = "newsFetch"]
    /\ UNCHANGED <<keylist, apiKeys, mongoClient, db, local, result, lastPull>>

\* fetch(url) and response.json() are over.  A response without a feed array
\* makes pullNews throw; otherwise the loop sends its first replaceOne, and
\* an empty feed goes straight to the delay.
NewsFetchReturn(p, resp) ==
    /\ pc[p] = "newsFetch"
    /\ LET err == PullNewsError(resp)
           seen == [hist[p] EXCEPT !.fetches = @ + 1, !.fetched = resp.kind,
                                   !.series = resp.feed]
       IN  IF err # NoError
           THEN /\ pc' = [pc EXCEPT ![p] = "done"]
                /\ result' = [result EXCEPT ![p] = PullFailure(call[p], err)]
                /\ hist' = [hist EXCEPT ![p] =
                      EndPull([seen EXCEPT !.fail = [kind |-> resp.kind, message |-> err]])]
                /\ UNCHANGED local
           ELSE /\ pc' = [pc EXCEPT ![p] = IF resp.feed = <<>> THEN "newsPace" ELSE "newsUpsert"]
                /\ local' = [local EXCEPT ![p] = [todo |-> resp.feed, count |-> 0]]
                /\ hist' = [hist EXCEPT ![p] = seen]
                /\ UNCHANGED result
    /\ UNCHANGED <<keylist, apiKeys, currentKeyIndex, issued, globalClient, mongoClient,
                   db, call, calls, lastPull>>

\* One replaceOne of the loop is over (err: its outcome): a failure leaves
\* the loop by exception; otherwise the document is stored and count++.
NewsUpsertReturn(p, err) ==
    /\ pc[p] = "newsUpsert"
    /\ IF err # NoError
       THEN /\ Failed(p, "cache", err)
            /\ db' = [db EXCEPT ![NewsCollection] = KeptOnFailure(@, hist[p].before)]
       ELSE LET item == Head(local[p].todo)
                rest == Tail(local[p].todo)
            IN  /\ db' = [db EXCEPT ![NewsCollection] =
                      ReplaceOneByTime(db[NewsCollection], item.time_published,
                                       NewsDoc(item))]
                /\ local' = [local EXCEPT ![p] =
                      [todo |-> rest, count |-> local[p].count + 1]]
                /\ pc' = [pc EXCEPT ![p] = IF rest = <<>> THEN "newsPace" ELSE "newsUpsert"]
                /\ UNCHANGED <<result, hist>>
    /\ UNCHANGED <<keylist, apiKeys, currentKeyIndex, issued, globalClient, mongoClient,
                   call, calls, lastPull>>

\* waitAfterApiCall() is over and pullNews returns count.
NewsPaceDone(p) ==
    /\ pc[p] = "newsPace"
    /\ hist' = [hist EXCEPT ![p] = EndPull([hist[p] EXCEPT
                      !.paces = @ + 1, !.pulled = local[p].count])]
    /\ local' = [local EXCEPT ![p] = NoLocal]
    /\ pc' = [pc EXCEPT ![p] = "done"]
    /\ result' = [result EXCEPT ![p] = Returned(local[p].count)]
    /\ UNCHANGED <<keylist, apiKeys, currentKeyIndex, issued, globalClient, mongoClient,
                   db, call, calls, lastPull>>

\* Articles of the NEWS_SENTIMENT feed.
Text(token) == JsString(<<token>>)

\* Every field present.
Art_Full ==
    [title |-> Text("Apple unveils new chip"),
     url |-> Text("https://news.example/apple-chip"),
     time_published |-> JsString(<<"2", "0", "2", "5", "1", "2", "2", "1", "T", "0", "9", "3", "0", "0", "0">>),
     authors |-> JsArray(<<"Jane Doe">>),
     summary |-> Text("Apple announced a new chip."),
     banner_image |-> Text("https://news.example/apple-chip.png"),
     source |-> Text("Example News"),
     category_within_source |-> Text("Technology"),
     source_domain |-> Text("news.example"),
     topics |-> JsArray(<<"Technology">>),
     overall_sentiment_score |-> JsNumber(<<"0", ".", "2", "5">>),
     overall_sentiment_label |-> Text("Somewhat-Bullish"),
     ticker_sentiment |-> JsArray(<<"AAPL">>)]

\* No authors, banner image, topics or ticker sentiment.
Art_Bare ==
    [title |-> Text("Markets close lower"),
     url |-> Text("https://wire.example/markets"),
     time_published |-> JsString(<<"2", "0", "2", "5", "1", "2", "2", "1", "T", "1", "0", "1", "5", "0", "0">>),
     authors |-> JsUndefined,
     summary |-> Text("Stocks fell."),
     banner_image |-> JsUndefined,
     source |-> Text("Example Wire"),
     category_within_source |-> Text("n/a"),
     source_domain |-> Text("wire.example"),
     topics |-> JsUndefined,
     overall_sentiment_score |-> JsNumber(<<"-", "0", ".", "1">>),
     overall_sentiment_label |-> Text("Neutral"),
     ticker_sentiment |-> JsUndefined]

\* A later version of Art_Full under the same time stamp, with empty lists.
Art_Update ==
    [Art_Full EXCEPT !.title = Text("Apple unveils new chip (updated)"),
                     !.authors = JsArray(<<>>),
                     !.topics = JsArray(<<>>),
                     !.ticker_sentiment = JsArray(<<>>)]

\* data.feed when it is an array.
FeedSet ==
    { <<>>,
      <<Art_Bare>>,
      <<Art_Full, Art_Bare>>,
      <<Art_Full, Art_Update>> }

NewsResponse(kind, text, feed) == [kind |-> kind, text |-> text, feed |-> feed]

\* What fetch(url) and response.json() can give for the news request.
NewsResponses ==
    { NewsResponse("transport", <<"Unable to connect. Is the computer able to access the url?">>, <<>>),
      NewsResponse("status", <<"503", ": ", "Service Unavailable">>, <<>>),
      NewsResponse("badJson", <<"Unexpected token < in JSON at position 0">>, <<>>),
      NewsResponse("apiError", <<"Invalid inputs. Please refer to the API documentation.">>, <<>>),
      NewsResponse("noFeed", <<>>, <<>>),
      NewsResponse("badFeed", <<>>, <<>>) }
    \cup {NewsResponse("ok", <<>>, f) : f \in FeedSet}

----------------------------------------------------------------------------
(* The news query tool: mcp.ts formatNewsTime, processGetNews *)

\* isEnd ? `${dateStr}T2359` : `${dateStr}T0000`
FormatNewsTime(s, isEnd) ==
    s \o (IF isEnd THEN <<"T", "2", "3", "5", "9">> ELSE <<"T", "0", "0", "0", "0">>)

\* $options: "i": the letter c with its case folded.
Fold(c) ==
    LET UpperCase == <<"A", "B", "C", "D", "E", "F", "G", "H", "I", "J", "K", "L", "M",
                       "N", "O", "P", "Q", "R", "S", "T", "U", "V", "W", "X", "Y", "Z">>
        LowerCase == <<"a", "b", "c", "d", "e", "f", "g", "h", "i", "j", "k", "l", "m",
                       "n", "o", "p", "q", "r", "s", "t", "u", "v", "w", "x", "y", "z">>
    IN  IF \E i \in 1..26 : UpperCase[i] = c
        THEN LowerCase[CHOOSE i \in 1..26 : UpperCase[i] = c]
        ELSE c

\* { $regex: pattern, $options: "i" } on a text, for a pattern made of
\* letters, digits, spaces and ".": the pattern is a regular expression, in
\* which "." stands for any character but a line break, and it may match
\* anywhere in the text.
RegexFind(text, pattern) ==
    \E i \in 0..(Len(text) - Len(pattern)) :
        \A j \in 1..Len(pattern) :
            IF pattern[j] = "." THEN text[i + j] # "\n"
            ELSE Fold(pattern[j]) = Fold(text[i + j])

\* time_published: { $gte: fromTime, $lte: toTime }, in binary string order.
NewsInRange(t, from, to) ==
    /\ ~StrLess(t, FormatNewsTime(from, FALSE))
    /\ ~StrLess(FormatNewsTime(to, TRUE), t)

\* col.find(filter).toArray() with the filter of processGetNews.
FindNews(docs, from, to, keyword) ==
    SelectSeq(docs, LAMBDA doc :
        /\ NewsInRange(doc.time_published.v, from, to)
        /\ Truthy(keyword) =>
              \/ RegexFind(doc.title.v, keyword)
              \/ RegexFind(doc.summary.v, keyword))

\* A result that reports an empty read as a failure.
NewsResult_EmptyIsError(from, to, keyword, docs) ==
    [message |-> <<"No news articles found between ">> \o from \o <<" and ">> \o to,
     count |-> Len(docs),
     data |-> NullData,
     error |-> <<"No data">>]

\* What processGetNews returns for the documents read.
NewsResult(from, to, keyword, docs) ==
    LET keywordInfo == IF Truthy(keyword)
                       THEN <<" matching keyword \"">> \o keyword \o <<"\"">>
                       ELSE <<>>
    IN  [message |-> (IF Len(docs) = 0 THEN <<"No news articles found between ">>
                      ELSE <<"Found ">> \o Decimal(Len(docs))
                              \o <<" news articles between ">>)
                         \o from \o <<" and ">> \o to \o keywordInfo,
         count |-> Len(docs),
         data |-> ListData(docs)]

\* The call-tool handler for get_news: connect when the server has no client
\* yet (connectErr: the outcome), formatNewsTime(from), formatNewsTime(to),
\* findDocuments (findErr: the outcome), and the result.
GetNewsCall(p, from, to, keyword, connectErr, findErr) ==
    /\ pc[p] = "idle"
    /\ calls < MaxCalls
    /\ calls' = calls + 1
    /\ call' = [call EXCEPT ![p] = [op |-> "get_news", symbol |-> "", date |-> Undefined,
                                    from |-> from, to |-> to, keyword |-> keyword]]
    /\ LET connects == ~mongoClient
           connected == ~connects \/ connectErr = NoError
           valid == IsYYYYMMDD(from) /\ IsYYYYMMDD(to)
           docs == FindNews(db[NewsCollection], from, to, keyword)
           outcome ==
              IF ~connected
              THEN ToolError(<<"Failed to connect to MongoDB: ">> \o connectErr)
              ELSE IF ~IsYYYYMMDD(from) THEN ToolError(MsgInvalidDate(from))
              ELSE IF ~IsYYYYMMDD(to) THEN ToolError(MsgInvalidDate(to))
              ELSE IF findErr # NoError THEN ToolError(findErr)
              ELSE ToolResult(IF Len(docs) = 0
                              THEN NewsResult(from, to, keyword, <<>>)
                              ELSE NewsResult(from, to, keyword, docs))
       IN  /\ mongoClient' = (mongoClient \/ connected)
           /\ globalClient' = (globalClient \/ (connects /\ connected))
           /\ result' = [result EXCEPT ![p] = outcome]
           /\ pc' = [pc EXCEPT ![p] = "done"]
           /\ hist' = [hist EXCEPT
                         ![p].read1 = IF outcome.kind = "tool" /\ outcome.isError
                                      THEN -1 ELSE Len(docs),
                         ![p].reads = IF connected /\ valid THEN 1 ELSE 0]
    /\ UNCHANGED <<keylist, apiKeys, currentKeyIndex, issued, db, local, lastPull>>

\* A time stamp YYYYMMDDTHHMMSS of December 2025.
Stamp(day, time) == JsString(<<"2", "0", "2", "5", "1", "2">> \o day \o <<"T">> \o time)

\* An article of the feed with the given time stamp, title and summary.
Article(stamp, title, summary) ==
    [Art_Bare EXCEPT !.time_published = stamp,
                     !.title = JsString(title),
                     !.summary = JsString(summary)]

\* A feed from the last second before 2025-12-21 to the first second after
\* 2025-12-22, in the order it was pulled.
QueryFeed ==
    << Article(Stamp(<<"2", "0">>, <<"2", "3", "5", "9", "5", "9">>),
               <<"O", "i", "l", " ", "s", "t", "e", "a", "d", "y">>, <<"C", "r", "u", "d", "e", " ", "f", "l", "a", "t", ".">>),
       Article(Stamp(<<"2", "1">>, <<"0", "0", "0", "0", "0", "0">>),
               <<"T", "r", "a", "d", "i", "n", "g", " ", "h", "a", "l", "t", "s">>, <<"M", "a", "r", "k", "e", "t", "s", " ", "p", "a", "u", "s", "e", "d", ".">>),
       Article(Stamp(<<"2", "2">>, <<"1", "2", "0", "0", "0", "0">>),
               <<"C", "a", "p", "i", "t", "a", "l", " ", "f", "l", "o", "w", "s">>, <<"D", "a", "y", " ", "t", "r", "a", "d", "i", "n", "g", " ", "u", "p", ".">>),
       Article(Stamp(<<"2", "2">>, <<"2", "3", "5", "9", "3", "0">>),
               <<"R", "e", "t", "a", "i", "l", " ", "s", "u", "r", "g", "e">>, <<"F", "u", "n", "d", "s", " ", "m", "o", "v", "e", ".">>),
       Article(Stamp(<<"2", "3">>, <<"0", "0", "0", "0", "0", "0">>),
               <<"B", "o", "n", "d", " ", "a", "u", "c", "t", "i", "o", "n">>, <<"Y", "i", "e", "l", "d", "s", " ", "f", "a", "l", "l", ".">>) >>

\* The news partition as pullNews of a feed leaves it.
StoredFeed(feed) == [i \in 1..Len(feed) |-> NewsDoc(feed[i])]

\* The from and to arguments of get_news: two days, a string with a
\* non-digit, and the empty string.
NewsDateArgs ==
    { <<"2", "0", "2", "5", "1", "2", "2", "1">>,
      <<"2", "0", "2", "5", "1", "2", "2", "2">>,
      <<"2", "0", "2", "5", "1", "2", "2", "x">>,
      <<>> }

\* The keyword argument: omitted, empty, a word, a word that misses every
\* article, and a keyword with a ".".
KeywordArgs ==
    { Undefined,
      <<>>,
      <<"T", "R", "A", "D", "I", "N", "G">>,
      <<"g", "o", "l", "d">>,
      <<"A", ".", "I">> }

----------------------------------------------------------------------------
(* Key files *)

Str_K1 == <<"K", "1">>
Str_K2 == <<"K", "2">>
Str_K3 == <<"K", "3">>
NL == <<"\n">>

\* .keylist contents of the key-rotation specification.
KeyFileContents ==
    { <<>>,                                             \* empty file
      <<" ", "\n", "\t", "\n">>,                         \* blank lines only
      Str_K1 \o NL,                                     \* one key
      Str_K1 \o NL \o Str_K2,                           \* no final newline
      Str_K1 \o NL \o Str_K2 \o NL \o Str_K3 \o NL,     \* spec scenario
      <<" ">> \o Str_K1 \o <<" ", "\r">> \o NL \o NL \o Str_K2 \o NL,
      Str_K1 \o NL \o Str_K1 \o NL \o Str_K2 \o NL }    \* a key listed twice

InitCallers ==
    /\ pc = [p \in Callers |-> "idle"]
    /\ call = [p \in Callers |-> NoCall]
    /\ local = [p \in Callers |-> NoLocal]
    /\ result = [p \in Callers |-> NoResult]
    /\ hist = [p \in Callers |-> NoHist]
    /\ calls = 0

\* The modules as they are loaded: no key pool, no client, no call.
InitModules ==
    /\ apiKeys = <<>>
    /\ currentKeyIndex = 0
    /\ issued = <<>>
    /\ globalClient = FALSE
    /\ mongoClient = FALSE
    /\ lastPull = [s \in Symbols |-> NoPull]
    /\ InitCallers

\* The database with every partition empty.
EmptyStore == [c \in {StockCollection(s) : s \in Symbols} \cup {NewsCollection} |-> <<>>]

InitShared ==
    /\ InitModules
    /\ db = EmptyStore

InitKeys ==
    /\ keylist \in {File(c) : c \in KeyFileContents} \cup {Absent}
    /\ InitShared

NextKeys == \E p \in Callers : GetKeyCall(p) \/ KeylistRead(p) \/ Return(p)

\* Key rotation on its own: callers that call getKey() directly.
SpecKeys == InitKeys /\ [][NextKeys]_vars

Init ==
    /\ keylist \in {Absent, File(<<" ", "\n">>), File(Str_K1 \o NL \o Str_K2 \o NL)}
    /\ InitShared

Next ==
    \E p \in Callers :
          \/ \E s \in Symbols : PullStockCall(p, s)
          \/ \E s \in Symbols, d \in DateArgs, ce \in CacheOutcomes, fe \in CacheOutcomes :
                GetStockPricesCall(p, s, d, ce, fe)
          \/ AutoPull(p)
          \/ KeylistRead(p)
          \/ \E r \in Responses(call[p].symbol) : FetchReturn(p, r)
          \/ \E e \in CacheOutcomes : UpsertReturn(p, e)
          \/ PaceDone(p)
          \/ \E e \in CacheOutcomes : Reread(p, e)
          \/ Return(p)

\* The whole system: overlapping get_stock_prices and pullStock callers.
Spec == Init /\ [][Next]_vars

NextFetch ==
    \E p \in Callers :
          \/ \E s \in Symbols : PullStockCall(p, s)
          \/ PullNewsCall(p)
          \/ KeylistRead(p)
          \/ \E r \in Responses(call[p].symbol) : FetchReturn(p, r)
          \/ \E e \in CacheOutcomes : UpsertReturn(p, e)
          \/ PaceDone(p)
          \/ \E r \in NewsResponses : NewsFetchReturn(p, r)
          \/ \E e \in CacheOutcomes : NewsUpsertReturn(p, e)
          \/ NewsPaceDone(p)
          \/ Return(p)

\* The fetchers on their own: overlapping pullStock and pullNews calls of a
\* program that has connected to the store (run-stocks.ts, business.test.ts).
SpecFetch == Init /\ [][NextFetch]_vars

----------------------------------------------------------------------------
(* Helpers of the properties *)

Range(f) == {f[i] : i \in 1..Len(f)}
DatesOf(docs) == {docs[i].date : i \in 1..Len(docs)}
UniqueDates(docs) == \A i, j \in 1..Len(docs) : i # j => docs[i].date # docs[j].date
IsQuery(p) == call[p].op = "get_stock_prices"
Undated(p) == ~Truthy(call[p].date)
\* p's pullStock is returning in this step.
PullReturns(p) == pc[p] = "pace" /\ pc'[p] # "pace"
\* A result of get_stock_prices that carries records and is not marked as
\* pulled, missing or failed: its records came from the cache.
CacheSourced(r) ==
    /\ r.kind = "tool" /\ ~r.isError
    /\ "error" \notin DOMAIN r.body
    /\ ~Includes(r.body.message, TagFresh)
    /\ ~Includes(r.body.message, TagEvenAfter)
    /\ r.body.data.items # <<>>
FreshlyPulled(r) ==
    /\ r.kind = "tool" /\ ~r.isError
    /\ "error" \notin DOMAIN r.body
    /\ Includes(r.body.message, TagFresh)
    /\ r.body.data.items # <<>>
KeyFile_K123 == File(Str_K1 \o NL \o Str_K2 \o NL \o Str_K3 \o NL)

----------------------------------------------------------------------------
(* Key rotation *)

\* C1: with a loaded pool of N >= 1 keys, the i-th value getKey() returns is
\* the key at pool position (i - 1) mod N, so N consecutive calls return each
\* position once in file order and call N + 1 returns the first again; with
\* the file K1, K2, K3 five calls return K1, K2, K3, K1, K2.
C1_RoundRobin ==
    /\ \A i \in 1..Len(issued) :
          /\ Len(apiKeys) >= 1
          /\ issued[i] = apiKeys[((i - 1) % Len(apiKeys)) + 1]
    /\ (keylist = KeyFile_K123 /\ Len(issued) = 5)
          => issued = <<Str_K1, Str_K2, Str_K3, Str_K1, Str_K2>>

\* Five keys have been issued from the three-key file.
C1_Witness == keylist = KeyFile_K123 /\ Len(issued) = 5

----------------------------------------------------------------------------
(* Cache fill on miss *)

\* C2 (a): an undated get_stock_prices call whose first read was empty calls
\* pullStock exactly once, and reaches the remote API at most once.
C2_OnePull ==
    \A p \in Callers :
        (IsQuery(p) /\ Undated(p) /\ hist[p].read1 = 0 /\ pc[p] \in {"reread", "done"})
            => hist[p].pulls = 1 /\ hist[p].fetches <= 1

\* C2 (b): when that pull stored a non-empty series and the store answers the
\* repeated read, the call returns a non-empty result marked as freshly pulled.
C2_Fresh ==
    \A p \in Callers :
        (/\ IsQuery(p) /\ Undated(p) /\ pc[p] = "done"
         /\ hist[p].pulled > 0 /\ hist[p].fail = NoFail)
            => FreshlyPulled(result[p])

\* C2 (c): a second undated call for the same symbol, made while the first
\* caller holds its freshly pulled result, returns in one step the records
\* of the cache, marked as cache-sourced, without a pull or a key draw
\* (provided the store answers its read).
C2_SecondCall ==
    \A p, q \in Callers :
        (/\ pc[q] = "done" /\ IsQuery(q) /\ Undated(q) /\ FreshlyPulled(result[q])
         /\ pc[p] = "idle" /\ pc'[p] # "idle"
         /\ call'[p] = [op |-> "get_stock_prices", symbol |-> call[q].symbol,
                        date |-> Undefined]
         /\ ~(result'[p].kind = "tool" /\ result'[p].isError))
            => /\ pc'[p] = "done"
               /\ CacheSourced(result'[p])
               /\ result'[p].body.data.items = FindLatest(db[StockCollection(call[q].symbol)])
               /\ hist'[p].pulls = 0 /\ hist'[p].fetches = 0
               /\ UNCHANGED <<issued, db>>

\* C2: on an empty partition an undated get_stock_prices call pulls exactly
\* once; a successful non-empty pull gives a non-empty, freshly pulled result;
\* an immediate second call is served from the cache with no further fetch.
C2_CacheFillOnMiss == [](C2_OnePull /\ C2_Fresh) /\ [][C2_SecondCall]_vars

\* One caller holds a freshly pulled result and the other a cache-sourced one
\* for the same symbol.
C2_Witness ==
    \E p, q \in Callers :
        /\ pc[q] = "done" /\ IsQuery(q) /\ Undated(q) /\ FreshlyPulled(result[q])
        /\ hist[q].read1 = 0 /\ hist[q].pulls = 1
        /\ pc[p] = "done" /\ IsQuery(p) /\ Undated(p) /\ CacheSourced(result[p])
        /\ call[p].symbol = call[q].symbol /\ hist[p].pulls = 0

\* C3 (step): a get_stock_prices call whose first read yields a record
\* returns those records, cache-sourced, in the same step, which leaves the
\* key pool, the cursor, the issued keys and every partition as they were.
C3_HitStep ==
    \A p \in Callers :
        (/\ pc[p] = "idle" /\ call'[p].op = "get_stock_prices"
         /\ hist'[p].read1 > 0)
            => LET docs == ReadPrices(db[StockCollection(call'[p].symbol)], call'[p].date)
               IN  /\ hist'[p].read1 = Len(docs)
                   /\ pc'[p] = "done"
                   /\ CacheSourced(result'[p])
                   /\ result'[p].body.data.items =
                         (IF Truthy(call'[p].date) THEN <<docs[1]>> ELSE docs)
                   /\ UNCHANGED <<keylist, apiKeys, currentKeyIndex, issued, db, lastPull>>

\* C3 (call): such a call never called pullStock, drew a key, reached the
\* remote API or paced.
C3_HitCall ==
    \A p \in Callers :
        (IsQuery(p) /\ hist[p].read1 > 0)
            => /\ pc[p] = "done"
               /\ hist[p].pulls = 0 /\ hist[p].draws = 0
               /\ hist[p].fetches = 0 /\ hist[p].paces = 0

\* C3: when the first read of get_stock_prices yields at least one record the
\* call returns those records as cache-sourced and changes nothing: no key is
\* drawn, no remote call is made, no delay runs, no record is written.
C3_HitChangesNothing == []C3_HitCall /\ [][C3_HitStep]_vars

\* A dated call answered from the cache.
C3_Witness ==
    \E p \in Callers :
        /\ IsQuery(p) /\ Truthy(call[p].date) /\ hist[p].read1 > 0
        /\ pc[p] = "done" /\ CacheSourced(result[p])

----------------------------------------------------------------------------
(* pullStock *)

\* C4: when pullStock(S) returns after running alone, right after a pullStock(S)
\* that ran alone with the same time series, it returns the same count and
\* leaves stock-S with the records its call found there: as many, the same
\* ones, no date twice.
C4_RepullStep ==
    \A p \in Callers :
        (/\ PullReturns(p) /\ hist[p].clean
         /\ hist[p].prev.valid /\ hist[p].prev.series = hist[p].series)
            => LET after == db'[StockCollection(call[p].symbol)]
               IN  /\ local[p].count = hist[p].prev.count
                   /\ (call[p].op = "pullStock" => result'[p] = Returned(hist[p].prev.count))
                   /\ Len(after) = Len(hist[p].before)
                   /\ Range(after) = Range(hist[p].before)
                   /\ UniqueDates(after)

C4_RepullIdempotent == [][C4_RepullStep]_vars

\* A second pull of a non-empty series, run alone after a first pull of the
\* same series, has stored its records and is about to return.
C4_Witness ==
    \E p \in Callers :
        /\ pc[p] = "pace" /\ hist[p].clean /\ hist[p].prev.valid
        /\ hist[p].prev.series = hist[p].series /\ Len(hist[p].series) = 2

Dec(n, d) == [num |-> n, den |-> d]
\* The records the two quotes denote, written out.
ExpectedDoc(symbol, entry) ==
    IF entry.values = Quote_A
    THEN [symbol |-> symbol, date |-> entry.date,
          open |-> Dec(27097, 100), high |-> Dec(27245, 100), low |-> Dec(26956, 100),
          close |-> Dec(27236, 100), volume |-> Dec(29360026, 1)]
    ELSE [symbol |-> symbol, date |-> entry.date,
          open |-> Dec(2715, 10), high |-> Dec(273, 1), low |-> Dec(2701, 10),
          close |-> Dec(272, 1), volume |-> Dec(31000, 1)]

\* C6: when pullStock(S) returns after running alone on a time series E,
\* stock-S holds for every date of E exactly one record, the one the payload
\* denotes (prices as decimals, volume as an integer); the records of other
\* dates are the ones its call found; and its count is |E|.  The AAPL
\* scenario: one entry for 2025-12-23 into an empty partition stores one record.
C6_PullStep ==
    \A p \in Callers :
        (PullReturns(p) /\ hist[p].clean)
            => LET E == hist[p].series
                   before == hist[p].before
                   after == db'[StockCollection(call[p].symbol)]
                   dates == {E[i].date : i \in 1..Len(E)}
               IN  /\ \A i \in 1..Len(E) :
                         /\ Cardinality({k \in 1..Len(after) : after[k].date = E[i].date}) = 1
                         /\ ExpectedDoc(call[p].symbol, E[i]) \in Range(after)
                   /\ {d \in Range(after) : d.date \notin dates}
                         = {d \in Range(before) : d.date \notin dates}
                   /\ Len(after) = Cardinality(DatesOf(before) \cup dates)
                   /\ local[p].count = Len(E)
                   /\ (E = <<Entry(Date_1223, Quote_A)>> /\ before = <<>>)
                         => after = <<[symbol |-> call[p].symbol, date |-> Date_1223,
                                       open |-> Dec(27097, 100), high |-> Dec(27245, 100),
                                       low |-> Dec(26956, 100), close |-> Dec(27236, 100),
                                       volume |-> Dec(29360026, 1)]>>

C6_PullStoresSeries == [][C6_PullStep]_vars

\* A pull that ran alone has replaced the record of 2025-12-23 by another
\* quote, added 2025-12-22, and is about to return.
C6_Witness ==
    \E p \in Callers :
        /\ pc[p] = "pace" /\ hist[p].clean /\ Len(hist[p].series) = 2
        /\ hist[p].before = <<ExpectedDoc(call[p].symbol, Entry(Date_1223, Quote_A))>>
        /\ ExpectedDoc(call[p].symbol, Entry(Date_1223, Quote_B))
              \in Range(db[StockCollection(call[p].symbol)])

----------------------------------------------------------------------------
(* Failures of the cache fill *)

\* A result that reports a failure as data.
FailureShape(r) ==
    /\ r.kind = "tool" /\ ~r.isError
    /\ {"message", "data", "error"} \subseteq DOMAIN r.body
    /\ r.body.message # <<>> /\ r.body.error # <<>>
    /\ r.body.data.items = <<>>

\* C7: get_stock_prices never ends with an exception of pullStock; when
\* pullStock (or the read after it) has thrown, the call returns a result with
\* a message and an error field and no records; for a symbol the provider
\* rejects this is a "No stock data found" result.
C7_PullFailureIsData ==
    \A p \in Callers :
        IsQuery(p) =>
            /\ result[p].kind # "thrown"
            /\ hist[p].fail # NoFail =>
                  /\ pc[p] = "done"
                  /\ FailureShape(result[p])
                  /\ result[p].body.message[1] = "No stock data found for "

\* get_stock_prices for a symbol the provider rejects has returned.
C7_Witness ==
    \E p \in Callers :
        /\ IsQuery(p) /\ pc[p] = "done" /\ call[p].symbol = "XYZ"
        /\ hist[p].fail.kind = "apiError" /\ FailureShape(result[p])

\* C8: a failure of getKey (missing or empty .keylist) gives the error
\* "Missing .keylist file"; every other failure gives its own error text.
C8_FailureClasses ==
    \A p \in Callers :
        (IsQuery(p) /\ pc[p] = "done" /\ hist[p].fail # NoFail)
            => result[p].body.error =
                  (IF hist[p].fail.kind = "config" THEN MsgMissingKeylist
                   ELSE hist[p].fail.message)

\* C9 as stated: every failed cache fill answers with data: null.
C9_FailureDataNull ==
    \A p \in Callers :
        (IsQuery(p) /\ pc[p] = "done" /\ hist[p].fail # NoFail)
            => FailureShape(result[p]) /\ result[p].body.data = NullData

\* C9, amended: every failed cache fill is a normal result with a message and
\* an error field, whose data is null when a date was given and the empty
\* list when none was.
C9_FailureData ==
    \A p \in Callers :
        (IsQuery(p) /\ pc[p] = "done" /\ hist[p].fail # NoFail)
            => /\ FailureShape(result[p])
               /\ result[p].body.data =
                     (IF Truthy(call[p].date) THEN NullData ELSE ListData(<<>>))

\* A dated and an undated call have both failed in their cache fill.
C9_Witness ==
    \E p, q \in Callers :
        /\ IsQuery(p) /\ pc[p] = "done" /\ hist[p].fail # NoFail /\ Truthy(call[p].date)
        /\ IsQuery(q) /\ pc[q] = "done" /\ hist[q].fail # NoFail /\ Undated(q)

\* The explicit "not found even after pulling" result.
NotFoundShape(r) ==
    /\ r.kind = "tool" /\ ~r.isError
    /\ "error" \notin DOMAIN r.body
    /\ Includes(r.body.message, TagEvenAfter)
    /\ r.body.data.items = <<>>

\* C10 (step): the read after a successful pull is answered and finds nothing.
C10_RereadStep ==
    \A p \in Callers :
        (/\ pc[p] = "reread" /\ pc'[p] = "done" /\ hist'[p].fail = NoFail
         /\ Len(ReadPrices(db[StockCollection(call[p].symbol)], call[p].date)) = 0)
            => NotFoundShape(result'[p])

\* C10 (call): a call whose pull succeeded and whose second read was answered
\* ends with records marked as freshly pulled or with the not-found result.
C10_AfterPull ==
    \A p \in Callers :
        (IsQuery(p) /\ pc[p] = "done" /\ hist[p].paces = 1 /\ hist[p].fail = NoFail)
            => /\ hist[p].read1 = 0
               /\ FreshlyPulled(result[p]) \/ NotFoundShape(result[p])

\* C10: when the first read misses, pullStock succeeds and the repeated read
\* still finds nothing, the call returns the "even after pulling" result,
\* with no error field and no exception.
C10_NotFoundAfterPull == []C10_AfterPull /\ [][C10_RereadStep]_vars

\* Not found after a pull that stored records of other dates, and not found
\* after a pull of an empty series.
C10_Witness ==
    \E p, q \in Callers :
        /\ IsQuery(p) /\ pc[p] = "done" /\ Truthy(call[p].date)
        /\ hist[p].pulled > 0 /\ NotFoundShape(result[p])
        /\ IsQuery(q) /\ pc[q] = "done" /\ Undated(q)
        /\ hist[q].pulled = 0 /\ NotFoundShape(result[q])

----------------------------------------------------------------------------
(* Fetch economy and pacing *)

\* C11: once a pull of a symbol has returned after storing records, no
\* get_stock_prices call for that symbol, with or without a date, misses in
\* its first read and goes on to fetch.
C11_NoRefetch ==
    [][\A p \in Callers :
          (pc[p] = "idle" /\ pc'[p] = "miss")
              => ~(/\ lastPull[call'[p].symbol].valid
                   /\ lastPull[call'[p].symbol].count > 0
                   /\ db[StockCollection(call'[p].symbol)] # <<>>)]_vars

\* C13: a call whose remote request completed (a response arrived, whatever
\* it held, whatever happened while storing) has run the pacing delay once
\* when it ends.
C13_PaceAfterRemoteCall ==
    \A p \in Callers :
        (pc[p] = "done" /\ hist[p].fetches = 1 /\ hist[p].fetched # "transport")
            => hist[p].paces = 1

----------------------------------------------------------------------------
(* Termination of a query *)

\* The driver errors among the outcomes of a store call.
StoreFaults == CacheOutcomes \ {NoError}

\* The steps by which a get_stock_prices call in flight goes on: each is the
\* completion of an await (file read, HTTP exchange, driver call that fails
\* or succeeds, timer).
QueryProgress(p) ==
    \/ AutoPull(p)
    \/ KeylistRead(p)
    \/ \E r \in Responses(call[p].symbol) : FetchReturn(p, r)
    \/ \E e \in StoreFaults : UpsertReturn(p, e)
    \/ UpsertReturn(p, NoError)
    \/ PaceDone(p)
    \/ \E e \in StoreFaults : Reread(p, e)
    \/ Reread(p, NoError)

\* One client, as over the stdio transport: a request at a time.
QueryCallers == {"a"}

NextQuery ==
    \E p \in QueryCallers :
          \/ \E s \in Symbols, d \in DateArgs, ce \in CacheOutcomes, fe \in CacheOutcomes :
                GetStockPricesCall(p, s, d, ce, fe)
          \/ QueryProgress(p)
          \/ Return(p)

\* get_stock_prices calls one after the other, every await of which completes.
SpecQuery ==
    Init /\ [][NextQuery]_vars /\ \A p \in QueryCallers : WF_vars(QueryProgress(p))

C12_Bounded ==
    \A p \in Callers :
        IsQuery(p) =>
            /\ hist[p].pulls <= 1 /\ hist[p].fetches <= 1 /\ hist[p].draws <= 1
            /\ hist[p].reads <= 2
            /\ hist[p].reads = 2 => (hist[p].pulls = 1 /\ hist[p].paces = 1)

C12_Resolves == \A p \in Callers : IsQuery(p) ~> (pc[p] = "done")

\* C12: a get_stock_prices call calls pullStock at most once and reads the
\* cache at most twice, the second time only after a pull that returned, and
\* it resolves, whatever the fetch and the second read give.
C12_OnePullTwoReads == []C12_Bounded /\ C12_Resolves

\* A call has resolved after one pull and a second read that found nothing.
C12_Witness ==
    \E p \in Callers :
        /\ IsQuery(p) /\ pc[p] = "done"
        /\ hist[p].pulls = 1 /\ hist[p].reads = 2 /\ NotFoundShape(result[p])

----------------------------------------------------------------------------
(* The key source *)

\* A key source with no key: no file, or only blank lines.
NoKeyIn(file) ==
    \/ ~file.exists
    \/ \A i \in 1..Len(file.content) : file.content[i] \in WhiteSpace \cup {"\n"}

\* C14: with no .keylist file, or one without a non-blank line, getKey()
\* throws an error that names the key file, never returns a credential and
\* leaves the cursor where it was.
C14_NoKeyNoCredential ==
    NoKeyIn(keylist) =>
        /\ issued = <<>> /\ currentKeyIndex = 0
        /\ \A p \in Callers :
              (call[p].op = "getKey" /\ pc[p] = "done")
                  => /\ result[p].kind = "thrown"
                     /\ result[p].message =
                           (IF keylist.exists THEN <<".keylist", "file is empty">>
                            ELSE MsgENOENT)
                     /\ Includes(result[p].message, ".keylist")

\* getKey() has failed on a missing file and on a file of blank lines only.
C14_Witness ==
    \E p \in Callers :
        /\ call[p].op = "getKey" /\ pc[p] = "done" /\ result[p].kind = "thrown"
        /\ NoKeyIn(keylist) /\ keylist.exists /\ keylist.content # <<>>

\* C15: once a non-empty pool is loaded, no getKey() call, whether it began
\* after the load or overlaps it, reads the key source again, and the pool is
\* never assigned again.
C15_LoadedOnce ==
    [][/\ \A p \in Callers :
             (pc[p] = "loadKeys" /\ pc'[p] # "loadKeys") => apiKeys = <<>>
       /\ apiKeys # <<>> => apiKeys' = apiKeys]_vars

----------------------------------------------------------------------------
(* Responses without records *)

\* The responses the remote price call can fail with.
FailedFetches == {"transport", "status", "badJson", "apiError", "noSeries"}

\* C16 (step): the response is a failure: pullStock throws at once and the
\* step writes nothing.
C16_FailedFetchStep ==
    \A p \in Callers :
        (pc[p] = "fetch" /\ pc'[p] # "fetch" /\ hist'[p].fetched \in FailedFetches)
            => /\ pc'[p] = "done"
               /\ db' = db
               /\ hist'[p].fail.kind = hist'[p].fetched
               /\ call[p].op = "pullStock" =>
                     /\ result'[p].kind = "thrown"
                     /\ result'[p].message = hist'[p].fail.message
               /\ IsQuery(p) => FailureShape(result'[p])

\* C16 (call): up to the response, a pull that runs alone has left its
\* partition as it found it.
C16_NothingWritten ==
    \A p \in Callers :
        (InPull(p) /\ pc[p] \in {"loadKeys", "fetch"} /\ hist[p].clean)
            => db[StockCollection(call[p].symbol)] = hist[p].before

\* C16: on a transport failure, a non-success status, a body with an error
\* field or a body without the time series, pullStock throws and has
\* upserted nothing: the partitions are as they were before the call.
C16_FailedFetchWritesNothing == []C16_NothingWritten /\ [][C16_FailedFetchStep]_vars

\* pullStock has thrown on an error body, with records of an earlier pull in
\* the partition.
C16_Witness ==
    \E p \in Callers :
        /\ call[p].op = "pullStock" /\ pc[p] = "done" /\ result[p].kind = "thrown"
        /\ hist[p].fetched = "apiError"
        /\ db[StockCollection(call[p].symbol)] # <<>>

\* C17 (fetch): a response whose time series is present and empty is no error.
C17_EmptyFetchStep ==
    \A p \in Callers :
        (/\ pc[p] = "fetch" /\ pc'[p] # "fetch"
         /\ hist'[p].fetched = "ok" /\ hist'[p].series = <<>>)
            => pc'[p] = "pace" /\ db' = db /\ hist'[p].fail = NoFail

\* C17 (return): the pull of an empty series returns 0 with the partition as
\* it was, and a pull that returns 0 fetched an empty series.
C17_EmptyReturnStep ==
    \A p \in Callers :
        PullReturns(p) =>
            /\ db' = db
            /\ hist[p].series = <<>> =>
                  /\ local[p].count = 0 /\ hist'[p].pulled = 0
                  /\ hist[p].clean => db'[StockCollection(call[p].symbol)] = hist[p].before
                  /\ call[p].op = "pullStock" => result'[p] = [kind |-> "returned", value |-> 0]
            /\ local[p].count = 0 => (hist[p].series = <<>> /\ hist[p].fetched = "ok")

\* C17: when the response holds a time series without entries, pullStock
\* writes nothing, throws nothing and returns 0; it returns 0 in no other case.
C17_EmptySeriesReturnsZero == [][C17_EmptyFetchStep /\ C17_EmptyReturnStep]_vars

\* pullStock has returned 0 and the partition still holds an earlier pull.
C17_Witness ==
    \E p \in Callers :
        /\ call[p].op = "pullStock" /\ pc[p] = "done"
        /\ result[p] = [kind |-> "returned", value |-> 0]
        /\ hist[p].fetched = "ok" /\ hist[p].paces = 1
        /\ db[StockCollection(call[p].symbol)] # <<>>

----------------------------------------------------------------------------
(* The news fetcher *)

\* The documents the three articles denote: absent lists become empty lists,
\* an absent banner image becomes null, the score is a number, and the other
\* fields are the article's.
ExpectedNewsDoc(item) ==
    IF item = Art_Bare
    THEN [Art_Bare EXCEPT !.authors = JsArray(<<>>),
                          !.banner_image = JsNull,
                          !.topics = JsArray(<<>>),
                          !.ticker_sentiment = JsArray(<<>>),
                          !.overall_sentiment_score = Dec(-1, 10)]
    ELSE [item EXCEPT !.overall_sentiment_score = Dec(25, 100)]

\* The key and the expected document of entry e of a pull by caller p.
KeyOfEntry(p, e) == IF call[p].op = "pullNews" THEN e.time_published ELSE e.date
DocOfEntry(p, e) ==
    IF call[p].op = "pullNews" THEN ExpectedNewsDoc(e) ELSE ExpectedDoc(call[p].symbol, e)
PartitionOf(p) ==
    IF call[p].op = "pullNews" THEN NewsCollection ELSE StockCollection(call[p].symbol)

\* Of the first n entries of E, those no later one among them overwrites.
Standing(p, E, n) ==
    {i \in 1..n : \A j \in (i + 1)..n : KeyOfEntry(p, E[j]) # KeyOfEntry(p, E[i])}

\* C18: when an upsert of the loop of pullStock or pullNews throws, the
\* exception reaches the caller and the partition stays as the earlier
\* upserts of the loop left it: their records are stored, nothing is undone.
C18_FailedUpsertStep ==
    \A p \in Callers :
        (pc[p] \in {"upsert", "newsUpsert"} /\ pc'[p] = "done")
            => /\ db' = db
               /\ result'[p].kind = "thrown"
               /\ hist'[p].fail.kind = "cache"
               /\ result'[p].message = hist'[p].fail.message
               /\ hist[p].clean =>
                     \A i \in Standing(p, hist[p].series, local[p].count) :
                         DocOfEntry(p, hist[p].series[i]) \in Range(db'[PartitionOf(p)])

C18_PartialPullKept == [][C18_FailedUpsertStep]_vars

\* The only call so far, a pullNews, has thrown in its loop and the news
\* partition holds a record.
C18_Witness ==
    \E p \in Callers :
        /\ call[p].op = "pullNews" /\ pc[p] = "done" /\ calls = 1
        /\ result[p].kind = "thrown" /\ hist[p].fail.kind = "cache"
        /\ db[NewsCollection] # <<>>

\* The responses the remote news call can fail with.
FailedNewsFetches == {"transport", "status", "badJson", "apiError", "noFeed", "badFeed"}

C19_FailedFetchStep ==
    \A p \in Callers :
        (pc[p] = "newsFetch" /\ pc'[p] # "newsFetch" /\ hist'[p].fetched \in FailedNewsFetches)
            => /\ pc'[p] = "done"
               /\ db' = db
               /\ result'[p].kind = "thrown"
               /\ hist'[p].fetched \in {"noFeed", "badFeed"} =>
                     result'[p].message =
                        <<"Invalid API response: missing or invalid 'feed' field">>

C19_NothingWritten ==
    \A p \in Callers :
        (InNews(p) /\ pc[p] \in {"loadKeys", "newsFetch"} /\ hist[p].clean)
            => db[NewsCollection] = hist[p].before

\* C19: pullNews throws when the feed field is absent or not a list, and on a
\* transport failure, a non-success status or an error field; in each case
\* it has upserted nothing and the news partition is as it was.
C19_BadFeedWritesNothing == []C19_NothingWritten /\ [][C19_FailedFetchStep]_vars

\* pullNews has thrown on a feed that is not a list, with articles of an
\* earlier pull in the partition.
C19_Witness ==
    \E p \in Callers :
        /\ call[p].op = "pullNews" /\ pc[p] = "done" /\ result[p].kind = "thrown"
        /\ hist[p].fetched = "badFeed"
        /\ db[NewsCollection] # <<>>

\* C20 (loop): the delay starts only after the last upsert.
C20_PaceAfterLoop ==
    \A p \in Callers :
        pc[p] = "newsPace" =>
            /\ local[p].todo = <<>> /\ local[p].count = Len(hist[p].series)
            /\ hist[p].paces = 0

\* C20 (return): when a pullNews that ran alone returns, every time stamp of
\* the feed has one record, the document of the last article with that time
\* stamp; the other records are the ones found; the delay has run once and
\* the number of articles is returned.
C20_NewsReturnStep ==
    \A p \in Callers :
        (pc[p] = "newsPace" /\ pc'[p] # "newsPace")
            => LET E == hist[p].series
                   before == hist[p].before
                   after == db'[NewsCollection]
                   times == {E[i].time_published : i \in 1..Len(E)}
               IN  /\ hist'[p].paces = 1
                   /\ result'[p] = [kind |-> "returned", value |-> Len(E)]
                   /\ hist[p].clean =>
                         /\ \A i \in 1..Len(E) :
                               Cardinality({k \in 1..Len(after) :
                                   after[k].time_published = E[i].time_published}) = 1
                         /\ \A i \in Standing(p, E, Len(E)) :
                               ExpectedNewsDoc(E[i]) \in Range(after)
                         /\ {d \in Range(after) : d.time_published \notin times}
                               = {d \in Range(before) : d.time_published \notin times}

\* C20: pullNews stores for each article a record under its publication time
\* stamp, with the absent optional fields defaulted and the others copied,
\* paces once after the loop and returns the number of articles.
C20_NewsStored == []C20_PaceAfterLoop /\ [][C20_NewsReturnStep]_vars

\* A pullNews that ran alone has stored an article without optional fields
\* beside a full one and is about to return 2.
C20_Witness ==
    \E p \in Callers :
        /\ pc[p] = "newsPace" /\ hist[p].clean /\ local[p].count = 2
        /\ hist[p].series = <<Art_Full, Art_Bare>>
        /\ ExpectedNewsDoc(Art_Bare) \in Range(db[NewsCollection])

----------------------------------------------------------------------------
(* The news partition *)

TimesOf(docs) == {docs[i].time_published : i \in 1..Len(docs)}
UniqueTimes(docs) ==
    \A i, j \in 1..Len(docs) : i # j => docs[i].time_published # docs[j].time_published

\* C21 (state): no two records of the news partition have one time stamp.
C21_UniqueTimes == UniqueTimes(db[NewsCollection])

\* C21 (step): the news partition changes only in an upsert of pullNews; and
\* when a pullNews that ran alone returns and each time stamp of its feed was
\* stored before it began, the partition has as many records as before.
C21_RepullStep ==
    /\ db'[NewsCollection] # db[NewsCollection]
          => \E p \in Callers : call[p].op = "pullNews" /\ pc[p] = "newsUpsert"
    /\ \A p \in Callers :
          (/\ pc[p] = "newsPace" /\ pc'[p] # "newsPace" /\ hist[p].clean
           /\ TimesOf(hist[p].series) \subseteq TimesOf(hist[p].before))
              => Len(db'[NewsCollection]) = Len(hist[p].before)

----------------------------------------------------------------------------
(* The news query tool *)

\* A server started on a store that earlier pulls have filled.
InitNews ==
    /\ keylist = File(Str_K1 \o NL \o Str_K2 \o NL)
    /\ InitModules
    /\ db \in {[EmptyStore EXCEPT ![NewsCollection] = n] :
               n \in {<<>>, StoredFeed(QueryFeed), StoredFeed(SubSeq(QueryFeed, 4, 5))}}

NextNews ==
    \E p \in QueryCallers :
          \/ \E from \in NewsDateArgs, to \in NewsDateArgs, k \in KeywordArgs,
                ce \in CacheOutcomes, fe \in CacheOutcomes :
                GetNewsCall(p, from, to, k, ce, fe)
          \/ Return(p)

\* The get_news tool on its own, one request after another.
SpecNews == InitNews /\ [][NextNews]_vars

IsNewsQuery(p) == call[p].op = "get_news"
\* p's get_news call is made in this step.
NewsQueryStep(p) == pc[p] = "idle" /\ call'[p].op = "get_news"

\* C22 (step): a get_news call is over in the step that reads: it has called
\* no fetcher, drawn no key, reached no remote API and run no delay, and the
\* key pool, the cursor, the issued keys and every partition are as before;
\* a read without articles gives a result without error, with count 0 and
\* an empty list.
C22_NewsQueryStep ==
    \A p \in Callers :
        NewsQueryStep(p) =>
            /\ pc'[p] = "done"
            /\ UNCHANGED <<keylist, apiKeys, currentKeyIndex, issued, db, lastPull>>
            /\ hist'[p].pulls = 0 /\ hist'[p].draws = 0
            /\ hist'[p].fetches = 0 /\ hist'[p].paces = 0
            /\ hist'[p].reads <= 1
            /\ hist'[p].read1 = 0 =>
                  /\ result'[p].kind = "tool" /\ ~result'[p].isError
                  /\ "error" \notin DOMAIN result'[p].body
                  /\ result'[p].body.count = 0
                  /\ result'[p].body.data = ListData(<<>>)

\* C22: get_news never fills the cache: whatever its arguments, and also
\* when it reads no article, it draws no key, calls no remote API, runs no
\* delay and writes nothing; an empty read is a normal result with count 0.
C22_NewsNeverFills ==
    /\ [](\A p \in Callers : IsNewsQuery(p) => pc[p] = "done")
    /\ [][C22_NewsQueryStep]_vars

\* get_news has found no article for its keyword in a partition that holds
\* articles.
C22_Witness ==
    \E p \in Callers :
        /\ IsNewsQuery(p) /\ pc[p] = "done" /\ hist[p].read1 = 0
        /\ result[p].body.count = 0
        /\ call[p].keyword = <<"g", "o", "l", "d">>
        /\ db[NewsCollection] # <<>>

\* The text contains the keyword, letter case aside.
ContainsFolded(text, keyword) ==
    \E i \in 0..(Len(text) - Len(keyword)) :
        \A j \in 1..Len(keyword) : Fold(keyword[j]) = Fold(text[i + j])

\* The stored articles of the date range of p's call, in stored order.
DateRangeResult(p) ==
    SelectSeq(db[NewsCollection], LAMBDA doc :
        NewsInRange(doc.time_published.v, call'[p].from, call'[p].to))

\* C23: for every keyword, get_news returns exactly the articles of the date
\* range whose title or summary contains the keyword, letter case aside; with
\* the keyword omitted it returns the whole date range.
C23_KeywordFilter ==
    [][\A p \in Callers :
          (NewsQueryStep(p) /\ ~result'[p].isError)
              => result'[p].body.data.items =
                    IF call'[p].keyword = Undefined
                    THEN DateRangeResult(p)
                    ELSE SelectSeq(DateRangeResult(p), LAMBDA doc :
                            \/ ContainsFolded(doc.title.v, call'[p].keyword)
                            \/ ContainsFolded(doc.summary.v, call'[p].keyword))]_vars

\* The calendar day YYYYMMDD of a time stamp YYYYMMDDTHHMMSS.
DayOf(t) == SubSeq(t, 1, 8)

\* C24: get_news(from, to) returns every stored article published on a day D
\* with from <= D <= to, the two end days included from 00:00:00 through
\* 23:59:59, and no other article.
C24_WholeDays ==
    [][\A p \in Callers :
          (NewsQueryStep(p) /\ ~result'[p].isError /\ ~Truthy(call'[p].keyword))
              => result'[p].body.data.items =
                    SelectSeq(db[NewsCollection], LAMBDA doc :
                        /\ ~StrLess(DayOf(doc.time_published.v), call'[p].from)
                        /\ ~StrLess(call'[p].to, DayOf(doc.time_published.v)))]_vars

----------------------------------------------------------------------------
(* The latest records *)

\* Two decimal digits.
TwoDigits(n) == IF n < 10 THEN <<"0">> \o Decimal(n) ELSE Decimal(n)

\* The k-th day pulled, as the provider writes it: days 1 to 28 of the months
\* of 2025 in turn.
DayDate(k) ==
    <<"2", "0", "2", "5", "-">> \o TwoDigits(1 + ((k - 1) \div 28))
        \o <<"-">> \o TwoDigits(1 + ((k - 1) % 28))

\* stock-IBM after a pull of the days 1..n and a later pull that added the
\* days n+1..n+m: each pull stores its new days latest first.
StoredDays(n, m) ==
    [i \in 1..(n + m) |->
        StockDoc("IBM", DayDate(IF i <= n THEN n + 1 - i ELSE 2 * n + m + 1 - i),
                 IF i % 2 = 0 THEN Quote_A ELSE Quote_B)]

\* A server started on a store whose stock-IBM holds fewer records than the
\* limit of the latest read, as many, or more.
InitLatest ==
    /\ keylist = File(Str_K1 \o NL \o Str_K2 \o NL)
    /\ InitModules
    /\ db \in {[EmptyStore EXCEPT ![StockCollection("IBM")] = StoredDays(n, m)] :
               n \in {LatestLimit - 2, LatestLimit}, m \in {0, 1, 2}}

NextLatest ==
    \E p \in QueryCallers :
          \/ \E d \in {Undefined, <<>>}, ce \in CacheOutcomes, fe \in CacheOutcomes :
                GetStockPricesCall(p, "IBM", d, ce, fe)
          \/ Return(p)

\* Undated get_stock_prices calls on a filled partition.
SpecLatest == InitLatest /\ [][NextLatest]_vars

\* C25 (step): the records an undated call returns are min(100, n) records of
\* the partition, each date after the next, and every record left out is
\* older than every record returned.
C25_LatestStep ==
    \A p \in Callers :
        (/\ pc[p] = "idle" /\ call'[p].op = "get_stock_prices" /\ ~Truthy(call'[p].date)
         /\ ~result'[p].isError)
            => LET part == db[StockCollection(call'[p].symbol)]
                   items == result'[p].body.data.items
                   left == {i \in 1..Len(part) :
                               \A k \in 1..Len(items) : items[k] # part[i]}
               IN  /\ Len(items) <= LatestLimit
                   /\ Len(items) = (IF Len(part) > LatestLimit THEN LatestLimit
                                    ELSE Len(part))
                   /\ \A k \in 1..(Len(items) - 1) :
                         StrLess(items[k + 1].date, items[k].date)
                   /\ \A k \in 1..Len(items) : \E i \in 1..Len(part) : part[i] = items[k]
                   /\ \A i \in left : StrLess(part[i].date, items[Len(items)].date)

\* C25: an undated get_stock_prices returns at most 100 records, ordered by
\* date descending; they are the records of the partition with the greatest
\* dates: the 100 latest when it holds more than 100, else all of them.
C25_LatestHundred == [][C25_LatestStep]_vars

\* An undated call has returned 100 records of a partition of 102.
C25_Witness ==
    \E p \in Callers :
        /\ IsQuery(p) /\ Undated(p) /\ pc[p] = "done" /\ CacheSourced(result[p])
        /\ Len(db[StockCollection(call[p].symbol)]) = LatestLimit + 2
        /\ Len(result[p].body.data.items) = LatestLimit

----------------------------------------------------------------------------
(* Date conversion *)

\* formatStockDate(dateStr) called directly (run-stocks.ts, test-mcp.ts): the
\* converted date, or the exception for a string that is not eight digits.
FormatStockDateCall(p, dateStr) ==
    /\ pc[p] = "idle"
    /\ calls < MaxCalls
    /\ calls' = calls + 1
    /\ call' = [call EXCEPT ![p] = [op |-> "formatStockDate", symbol |-> "", date |-> dateStr]]
    /\ pc' = [pc EXCEPT ![p] = "done"]
    /\ result' = [result EXCEPT ![p] =
          IF IsYYYYMMDD(dateStr) THEN Returned(FormatStockDate(dateStr))
          ELSE Thrown(MsgInvalidDate(dateStr))]
    /\ UNCHANGED <<keylist, apiKeys, currentKeyIndex, issued, globalClient, mongoClient,
                   db, local, hist, lastPull>>

\* Eight-digit strings that differ in the digits on either side of the two
\* places where the string is cut, and in the century; and strings that are
\* not eight digits.
DateInputs ==
    { <<c>> \o <<"0", "2">> \o <<y>> \o <<m1>> \o <<m2>> \o <<d1>> \o <<d2>> :
          c \in {"1", "2"}, y \in {"4", "5"}, m1 \in {"0", "1"}, m2 \in {"1", "2"},
          d1 \in {"1", "2"}, d2 \in {"1", "2"} }
    \cup { <<>>,
           <<"2", "0", "2", "5", "1", "2", "2">>,
           <<"2", "0", "2", "5", "-", "1", "2", "-", "2", "2">>,
           <<"2", "0", "2", "5", "1", "2", "2", "x">> }

NextDates ==
    \E p \in Callers :
          \/ \E d \in DateInputs : FormatStockDateCall(p, d)
          \/ Return(p)

\* Callers of the date conversion.
SpecDates == Init /\ [][NextDates]_vars

\* p holds the date that formatStockDate returned for its argument.
Converted(p) ==
    call[p].op = "formatStockDate" /\ pc[p] = "done" /\ result[p].kind = "returned"

\* C26: formatStockDate is one-to-one on eight-digit strings, and its output
\* without the two hyphens is its input: YYYY-MM-DD with hyphens at places 5
\* and 8 and the digits of the input in order around them.
C26_DateBijection ==
    \A p \in Callers :
        /\ (call[p].op = "formatStockDate" /\ pc[p] = "done")
              => (Converted(p) <=> IsYYYYMMDD(call[p].date))
        /\ Converted(p) =>
              /\ Len(result[p].value) = 10
              /\ result[p].value[5] = "-" /\ result[p].value[8] = "-"
              /\ SelectSeq(result[p].value, LAMBDA c : c # "-") = call[p].date
              /\ \A q \in Callers :
                    (Converted(q) /\ call[q].date # call[p].date)
                        => result[q].value # result[p].value

\* Two dates that differ in the day only have been converted.
C26_Witness ==
    \E p, q \in Callers :
        /\ Converted(p) /\ Converted(q)
        /\ call[p].date # call[q].date
        /\ SubSeq(call[p].date, 1, 6) = SubSeq(call[q].date, 1, 6)

----------------------------------------------------------------------------
(* The tool surface *)

\* A server started without or with a key file, on a store that holds news
\* and no prices.
InitServer ==
    /\ keylist \in {Absent, File(Str_K1 \o NL \o Str_K2 \o NL)}
    /\ InitModules
    /\ db = [EmptyStore EXCEPT ![NewsCollection] = StoredFeed(SubSeq(QueryFeed, 2, 3))]

NextServer ==
    \E p \in Callers :
          \/ \E d \in DateArgs, ce \in CacheOutcomes, fe \in CacheOutcomes :
                GetStockPricesCall(p, "IBM", d, ce, fe)
          \/ \E from \in NewsDateArgs, to \in NewsDateArgs,
                ce \in CacheOutcomes, fe \in CacheOutcomes :
                GetNewsCall(p, from, to, Undefined, ce, fe)
          \/ AutoPull(p)
          \/ KeylistRead(p)
          \/ \E r \in Responses(call[p].symbol) : FetchReturn(p, r)
          \/ \E e \in CacheOutcomes : UpsertReturn(p, e)
          \/ PaceDone(p)
          \/ \E e \in CacheOutcomes : Reread(p, e)
          \/ Return(p)

\* The server with its two tools, requests overlapping.
SpecServer == InitServer /\ [][NextServer]_vars

\* The date arguments of p's call, made in this step, that are given and are
\* not eight digits.
MalformedDates(p) ==
    IF call'[p].op = "get_stock_prices"
    THEN {d \in {call'[p].date} : d # Undefined /\ ~IsYYYYMMDD(d)}
    ELSE IF call'[p].op = "get_news"
    THEN {d \in {call'[p].from, call'[p].to} : ~IsYYYYMMDD(d)}
    ELSE {}

\* C27: a get_stock_prices or get_news call with a date argument that is not
\* exactly eight digits (the empty string included) is answered, once the
\* server has its client, with the invalid-date error, before any cache read
\* or write and before any remote call.
C27_MalformedRejected ==
    [][\A p \in Callers :
          (pc[p] = "idle" /\ pc'[p] # "idle" /\ mongoClient' /\ MalformedDates(p) # {})
              => /\ pc'[p] = "done"
                 /\ result'[p].kind = "tool" /\ result'[p].isError
                 /\ \E d \in MalformedDates(p) : result'[p].text = <<"Error: ">> \o MsgInvalidDate(d)
                 /\ hist'[p].reads = 0 /\ hist'[p].pulls = 0
                 /\ UNCHANGED <<db, apiKeys, currentKeyIndex, issued>>]_vars

IsToolCall(p) == call[p].op \in {"get_stock_prices", "get_news"}

\* C28 (state): a call to a listed tool never ends with an exception: what
\* its caller gets is a tool response, and a failure is a response marked
\* isError or a result with an error field.  A caller without a call in
\* flight can have either tool called and answered.
C28_AlwaysAnswered ==
    \A p \in Callers :
        /\ (IsToolCall(p) /\ pc[p] = "done") => result[p].kind = "tool"
        /\ (IsToolCall(p) /\ pc[p] # "done") => result[p] = NoResult
        /\ (pc[p] = "idle" /\ calls < MaxCalls) =>
              /\ ENABLED GetStockPricesCall(p, "IBM", <<"2", "0", "2", "5", "1", "2", "2", "2">>,
                                            NoError, NoError)
              /\ ENABLED GetNewsCall(p, <<"2", "0", "2", "5", "1", "2", "2", "1">>,
                                     <<"2", "0", "2", "5", "1", "2", "2", "1">>,
                                     Undefined, NoError, NoError)

\* C28 (step): the step that ends a tool call with a failure leaves the
\* server's client as it was or connected, and every other caller untouched.
C28_FailureStep ==
    \A p \in Callers :
        (/\ IsToolCall(p) \/ pc[p] = "idle"
         /\ pc'[p] = "done" /\ pc[p] # "done" /\ call'[p].op \in {"get_stock_prices", "get_news"}
         /\ result'[p].isError \/ "error" \in DOMAIN result'[p].body)
            => /\ mongoClient => mongoClient'
               /\ \A q \in Callers \ {p} : pc'[q] = pc[q] /\ result'[q] = result[q]

\* C28: no get_stock_prices or get_news call crashes the server: a malformed
\* date, a failed connection or read and a failed cache fill all end in a
\* tool response, and the requests that follow are served.
C28_NeverCrashes == []C28_AlwaysAnswered /\ [][C28_FailureStep]_vars

\* One request has been answered with the error of a failed connection, and
\* a later one, made once the connection was there, with articles.
C28_Witness ==
    \E p, q \in Callers :
        /\ IsToolCall(p) /\ pc[p] = "done" /\ result[p].isError
        /\ Includes(result[p].text, "Failed to connect to MongoDB: ")
        /\ call[q].op = "get_news" /\ pc[q] = "done" /\ ~result[q].isError
        /\ result[q].body.count > 0

----------------------------------------------------------------------------
(* Overlapping cache fills *)

\* C29 (state): a call that has seen a miss can call pullStock at once,
\* whatever the other requests are doing.
C29_MissCanPull == \A p \in Callers : pc[p] = "miss" => ENABLED AutoPull(p)

\* C29 (step): the call that goes on from a miss starts a pull of its own,
\* with a key draw of its own when the pool is loaded, also while another
\* request is pulling the same symbol.
C29_OwnPullStep ==
    \A p \in Callers :
        (pc[p] = "miss" /\ pc'[p] # "miss")
            => /\ hist'[p].pulls = 1
               /\ pc'[p] \in {"loadKeys", "fetch"}
               /\ pc'[p] = "fetch" =>
                     hist'[p].draws = 1 /\ Len(issued') = Len(issued) + 1

\* C29: overlapping get_stock_prices calls for one missing symbol are not
\* merged: each sees the miss and runs its own pullStock, with its own key
\* draw and its own remote call.
C29_NoDeduplication == []C29_MissCanPull /\ [][C29_OwnPullStep]_vars

\* Two overlapping calls for one symbol have both seen the miss, and each has
\* drawn a key and had its response: two draws and two fetches for one
\* missing symbol.
C29_Witness ==
    \E p, q \in Callers :
        /\ p # q /\ IsQuery(p) /\ IsQuery(q) /\ call[p].symbol = call[q].symbol
        /\ hist[p].read1 = 0 /\ hist[q].read1 = 0
        /\ hist[p].draws = 1 /\ hist[q].draws = 1
        /\ hist[p].fetches = 1 /\ hist[q].fetches = 1
        /\ pc[p] = "upsert" /\ pc[q] = "upsert"
        /\ Len(issued) = 2

----------------------------------------------------------------------------
(* The store helper upsertDocument *)

TestCollection == <<"test_collection">>

\* Documents of the store tests (mongo.test.ts): with and without the field
\* "extra", with another name, and without a name.
TestDocs ==
    { [name |-> "Test", value |-> 42, extra |-> "data"],
      [name |-> "Test", value |-> 100],
      [name |-> "Other", value |-> 42, extra |-> "data"],
      [value |-> 7, extra |-> "more"] }

\* upsertDocument(db, collection, filter, doc) called directly by a program
\* that has connected to the store; err is the outcome of replaceOne.
UpsertDocumentCall(p, filter, doc, err) ==
    /\ pc[p] = "idle"
    /\ calls < MaxCalls
    /\ calls' = calls + 1
    /\ call' = [call EXCEPT ![p] = [op |-> "upsertDocument", symbol |-> "", date |-> Undefined,
                                    filter |-> filter, doc |-> doc]]
    /\ globalClient' = TRUE
    /\ pc' = [pc EXCEPT ![p] = "done"]
    /\ hist' = [hist EXCEPT ![p].before = db[TestCollection]]
    /\ IF err # NoError
       THEN /\ result' = [result EXCEPT ![p] = Thrown(err)]
            /\ UNCHANGED db
       ELSE /\ result' = [result EXCEPT ![p] = Returned(<<"true">>)]
            /\ db' = [db EXCEPT ![TestCollection] = UpsertDocument(@, filter, doc)]
    /\ UNCHANGED <<keylist, apiKeys, currentKeyIndex, issued, mongoClient, local, lastPull>>

InitStore ==
    /\ keylist = Absent
    /\ InitModules
    /\ db = [c \in {TestCollection} |-> <<>>]

NextStore ==
    \E p \in Callers :
          \/ \E n \in {"Test", "Other", "None"}, doc \in TestDocs, e \in CacheOutcomes :
                UpsertDocumentCall(p, [name |-> n], doc, e)
          \/ Return(p)

\* Programs that call the store helper directly.
SpecStore == InitStore /\ [][NextStore]_vars

\* C30 (step): an upsert that the store acknowledges, with a matching record
\* present, leaves the number of records as it was and one matching record
\* replaced by doc, with the fields of doc and no other; with no matching
\* record it adds doc as one more record.  The other records stay.
C30_UpsertStep ==
    \A p \in Callers :
        (pc[p] = "idle" /\ call'[p].op = "upsertDocument" /\ result'[p].kind = "returned")
            => LET before == db[TestCollection]
                   after == db'[TestCollection]
                   doc == call'[p].doc
                   matching == {i \in 1..Len(before) :
                                   MatchesFilter(before[i], call'[p].filter)}
               IN  IF matching # {}
                   THEN /\ Len(after) = Len(before)
                        /\ \E k \in matching :
                              /\ after[k] = doc
                              /\ DOMAIN after[k] = DOMAIN doc
                              /\ \A i \in 1..Len(before) : i # k => after[i] = before[i]
                   ELSE /\ Len(after) = Len(before) + 1
                        /\ after[Len(after)] = doc
                        /\ SubSeq(after, 1, Len(before)) = before

\* C30: upsertDocument replaces the whole matched record or inserts a new
\* one: with a match the record becomes doc, field for field, and the count
\* stays; without a match the count grows by one.
C30_ReplaceOrInsert == [][C30_UpsertStep]_vars

\* An upsert has replaced a record that had the field "extra" by a document
\* without it.
C30_Witness ==
    \E p \in Callers :
        /\ call[p].op = "upsertDocument" /\ pc[p] = "done" /\ result[p].kind = "returned"
        /\ hist[p].before = <<[name |-> "Test", value |-> 42, extra |-> "data"]>>
        /\ db[TestCollection] = <<[name |-> "Test", value |-> 100]>>

----------------------------------------------------------------------------
(* The store helpers for documents and collections: mongo.ts *)

TempCollection == <<"temp_test_collection">>

\* A record as it is stored: the fields of doc and the _id the driver gives
\* it.  Identifiers are numbered in the order they are given out; the
\* identifier 0 stands for a string that new ObjectId() does not accept.
WithId(doc, id) ==
    [f \in DOMAIN doc \cup {"_id"} |-> IF f = "_id" THEN id ELSE doc[f]]

\* An update that puts doc in the place of the record ({ _id } kept).
UpdateOne_Replace(docs, id, doc) ==
    [i \in 1..Len(docs) |-> IF docs[i]._id = id THEN WithId(doc, id) ELSE docs[i]]

\* col.updateOne({ _id: objectId }, { $set: doc }): the record with that _id
\* gets the fields of doc, its other fields stay.
UpdateOne(docs, id, doc) ==
    [i \in 1..Len(docs) |->
        IF docs[i]._id = id
        THEN [f \in DOMAIN docs[i] \cup DOMAIN doc |->
                 IF f \in DOMAIN doc THEN doc[f] ELSE docs[i][f]]
        ELSE docs[i]]

\* A delete that reports success without removing anything.
DeleteOne_Keep(docs, id) == docs

\* col.deleteOne({ _id: objectId })
DeleteOne(docs, id) == SelectSeq(docs, LAMBDA d : d._id # id)

\* The documents of a collection; one that does not exist has none.
DocsOf(c) == IF c \in DOMAIN db THEN db[c] ELSE <<>>

\* What a helper called by a connected program does when its one driver call
\* is answered: err is a failure of the driver call, else the helper returns
\* value and leaves the database as after.
StoreCall(p, args, err, value, after) ==
    /\ pc[p] = "idle"
    /\ calls < MaxCalls
    /\ calls' = calls + 1
    /\ call' = [call EXCEPT ![p] = args]
    /\ globalClient' = TRUE
    /\ pc' = [pc EXCEPT ![p] = "done"]
    /\ IF err # NoError
       THEN /\ result' = [result EXCEPT ![p] = Thrown(err)]
            /\ UNCHANGED db
       ELSE /\ result' = [result EXCEPT ![p] = Returned(value)]
            /\ db' = after
    /\ UNCHANGED <<keylist, apiKeys, currentKeyIndex, issued, mongoClient, local, hist,
                   lastPull>>

\* createDocument(db, collection, doc): insertOne; a collection that does
\* not exist is created by the insert.
CreateDocumentCall(p, c, doc, err) ==
    StoreCall(p, [op |-> "createDocument", symbol |-> "", date |-> Undefined,
                  collection |-> c, doc |-> doc, id |-> calls + 1],
              err, <<"id", calls + 1>>,
              [x \in DOMAIN db \cup {c} |->
                  IF x = c THEN Append(DocsOf(c), WithId(doc, calls + 1)) ELSE db[x]])

\* updateDocument(db, collection, id, doc): returns modifiedCount > 0.
UpdateDocumentCall(p, c, id, doc, err) ==
    LET args == [op |-> "updateDocument", symbol |-> "", date |-> Undefined,
                 collection |-> c, doc |-> doc, id |-> id]
        after == UpdateOne(DocsOf(c), id, doc)
    IN  IF id = 0
        THEN StoreCall(p, args, <<"Invalid ObjectId: ", id>>, <<>>, db)
        ELSE StoreCall(p, args, err,
                       IF after # DocsOf(c) THEN <<"true">> ELSE <<"false">>,
                       [x \in DOMAIN db |-> IF x = c THEN after ELSE db[x]])

\* deleteDocument(db, collection, id): returns deletedCount > 0.
DeleteDocumentCall(p, c, id, err) ==
    LET args == [op |-> "deleteDocument", symbol |-> "", date |-> Undefined,
                 collection |-> c, id |-> id]
        after == DeleteOne(DocsOf(c), id)
    IN  IF id = 0
        THEN StoreCall(p, args, <<"Invalid ObjectId: ", id>>, <<>>, db)
        ELSE StoreCall(p, args, err,
                       IF Len(after) < Len(DocsOf(c)) THEN <<"true">> ELSE <<"false">>,
                       [x \in DOMAIN db |-> IF x = c THEN after ELSE db[x]])

\* createCollection / removeCollection up to the answer of listCollections:
\* the names listed are kept for the test that follows.
ListCollectionsCall(p, op, c, err) ==
    /\ pc[p] = "idle"
    /\ calls < MaxCalls
    /\ calls' = calls + 1
    /\ call' = [call EXCEPT ![p] = [op |-> op, symbol |-> "", date |-> Undefined,
                                    collection |-> c]]
    /\ globalClient' = TRUE
    /\ IF err # NoError
       THEN /\ pc' = [pc EXCEPT ![p] = "done"]
            /\ result' = [result EXCEPT ![p] = Thrown(err)]
            /\ UNCHANGED local
       ELSE /\ pc' = [pc EXCEPT ![p] = "listed"]
            /\ local' = [local EXCEPT ![p] =
                            [todo |-> <<>>, count |-> 0, collections |-> DOMAIN db]]
            /\ UNCHANGED result
    /\ UNCHANGED <<keylist, apiKeys, currentKeyIndex, issued, mongoClient, db, hist, lastPull>>

\* createCollection after the listing: a listed name is refused; else
\* database.createCollection, which the server refuses when the collection
\* has appeared since.
CreateCollectionReturn(p, err) ==
    /\ pc[p] = "listed"
    /\ call[p].op = "createCollection"
    /\ pc' = [pc EXCEPT ![p] = "done"]
    /\ LET c == call[p].collection
       IN  IF c \in local[p].collections
           THEN /\ result' = [result EXCEPT ![p] =
                                 Thrown(<<"Collection '", c, "' already exists in database '">>)]
                /\ UNCHANGED db
           ELSE IF err # NoError
           THEN /\ result' = [result EXCEPT ![p] = Thrown(err)]
                /\ UNCHANGED db
           ELSE IF c \in DOMAIN db
           THEN /\ result' = [result EXCEPT ![p] = Thrown(<<"NamespaceExists">>)]
                /\ UNCHANGED db
           ELSE /\ result' = [result EXCEPT ![p] = Returned(<<"undefined">>)]
                /\ db' = [x \in DOMAIN db \cup {c} |-> IF x = c THEN <<>> ELSE db[x]]
    /\ UNCHANGED <<keylist, apiKeys, currentKeyIndex, issued, globalClient, mongoClient,
                   call, local, hist, calls, lastPull>>

\* A drop that empties the collection and keeps its name.
DropCollection_Empty(d, c) == [x \in DOMAIN d |-> IF x = c THEN <<>> ELSE d[x]]

\* database.collection(c).drop()
DropCollection(d, c) == [x \in DOMAIN d \ {c} |-> d[x]]

\* removeCollection after the listing: false for a name not listed; else
\* collection.drop().  For a collection that has gone since, the answer of
\* drop() depends on the driver: it throws "ns not found" or it succeeds.
RemoveCollectionReturn(p, err, gone) ==
    /\ pc[p] = "listed"
    /\ call[p].op = "removeCollection"
    /\ pc' = [pc EXCEPT ![p] = "done"]
    /\ LET c == call[p].collection
       IN  IF c \notin local[p].collections
           THEN /\ result' = [result EXCEPT ![p] = Returned(<<"false">>)]
                /\ UNCHANGED db
           ELSE IF err # NoError
           THEN /\ result' = [result EXCEPT ![p] = Thrown(err)]
                /\ UNCHANGED db
           ELSE IF c \notin DOMAIN db /\ gone # NoError
           THEN /\ result' = [result EXCEPT ![p] = Thrown(gone)]
                /\ UNCHANGED db
           ELSE /\ result' = [result EXCEPT ![p] = Returned(<<"true">>)]
                /\ db' = DropCollection(db, c)
    /\ UNCHANGED <<keylist, apiKeys, currentKeyIndex, issued, globalClient, mongoClient,
                   call, local, hist, calls, lastPull>>

NextCrud ==
    \E p \in Callers, e \in CacheOutcomes :
          \/ \E doc \in {[name |-> "Test", value |-> 42, extra |-> "data"],
                         [name |-> "Other", value |-> 7]} :
                CreateDocumentCall(p, TestCollection, doc, e)
          \/ \E id \in 0..2, doc \in {[value |-> 100], [value |-> 42],
                                      [name |-> "Other", note |-> "new"]} :
                UpdateDocumentCall(p, TestCollection, id, doc, e)
          \/ \E id \in 0..2 : DeleteDocumentCall(p, TestCollection, id, e)
          \/ \E op \in {"createCollection", "removeCollection"},
                c \in {TestCollection, TempCollection} :
                ListCollectionsCall(p, op, c, e)
          \/ CreateCollectionReturn(p, e)
          \/ \E gone \in {NoError, <<"ns not found">>} : RemoveCollectionReturn(p, e, gone)
          \/ Return(p)

\* Programs that call the document and collection helpers, starting with the
\* test collection created and empty.
SpecCrud == InitStore /\ [][NextCrud]_vars

\* C31 (step): an updateDocument call that returns leaves the collection with
\* as many records; the record with the given id gets the fields of doc and
\* keeps the value of every other field; every other record and every other
\* collection stay as they were; and the call returns true exactly when the
\* record with that id exists and is not as it was.
C31_UpdateStep ==
    \A p \in Callers :
        (pc[p] = "idle" /\ call'[p].op = "updateDocument" /\ result'[p].kind = "returned")
            => LET c == call'[p].collection
                   id == call'[p].id
                   doc == call'[p].doc
                   before == DocsOf(c)
                   after == IF c \in DOMAIN db' THEN db'[c] ELSE <<>>
               IN  /\ DOMAIN db' = DOMAIN db
                   /\ \A x \in DOMAIN db : x # c => db'[x] = db[x]
                   /\ Len(after) = Len(before)
                   /\ \A i \in 1..Len(before) :
                         IF before[i]._id = id
                         THEN /\ DOMAIN after[i] = DOMAIN before[i] \cup DOMAIN doc
                              /\ \A f \in DOMAIN doc : after[i][f] = doc[f]
                              /\ \A f \in DOMAIN before[i] \ DOMAIN doc :
                                    after[i][f] = before[i][f]
                         ELSE after[i] = before[i]
                   /\ (result'[p].value = <<"true">>)
                          <=> \E i \in 1..Len(before) :
                                 before[i]._id = id /\ after[i] # before[i]

\* C31: updateDocument changes only the fields present in doc on the record
\* with that id and preserves its other fields; it returns true when the
\* record was modified, and no other record is touched.
C31_UpdateIncremental == [][C31_UpdateStep]_vars

\* An update of the value of the first of two records has returned true: the
\* record has the new value and its name and extra field, the second record
\* is as created.
C31_Witness ==
    \E p \in Callers :
        /\ call[p].op = "updateDocument" /\ pc[p] = "done"
        /\ call[p].id = 1 /\ call[p].doc = [value |-> 100]
        /\ result[p] = Returned(<<"true">>)
        /\ DocsOf(TestCollection) =
               <<[_id |-> 1, name |-> "Test", value |-> 100, extra |-> "data"],
                 [_id |-> 2, name |-> "Other", value |-> 7]>>

\* C32 (step): a deleteDocument call that returns, for an id that a record of
\* the collection has, returns true and leaves the collection without that
\* record and with its other records in their order; for an id that no
\* record has it returns false and leaves the database as it was.
C32_DeleteStep ==
    \A p \in Callers :
        (pc[p] = "idle" /\ call'[p].op = "deleteDocument" /\ result'[p].kind = "returned")
            => LET c == call'[p].collection
                   id == call'[p].id
                   before == DocsOf(c)
               IN  IF \E i \in 1..Len(before) : before[i]._id = id
                   THEN /\ result'[p].value = <<"true">>
                        /\ DOMAIN db' = DOMAIN db
                        /\ \A x \in DOMAIN db : x # c => db'[x] = db[x]
                        /\ \A i \in 1..Len(db'[c]) : db'[c][i]._id # id
                        /\ db'[c] = SelectSeq(before, LAMBDA d : d._id # id)
                        /\ Len(db'[c]) = Len(before) - 1
                   ELSE /\ result'[p].value = <<"false">>
                        /\ db' = db

\* C32 (state): while a deleteDocument call holds the answer true, no record
\* of the collection has the id it deleted, so a second call with that id
\* finds none.
C32_DeletedStaysGone ==
    \A p \in Callers :
        (call[p].op = "deleteDocument" /\ result[p] = Returned(<<"true">>))
            => \A i \in 1..Len(DocsOf(call[p].collection)) :
                  DocsOf(call[p].collection)[i]._id # call[p].id

\* C32: deleteDocument on an existing record returns true and the record is
\* no longer listed; called again with the same id it returns false and
\* leaves the collection unchanged.
C32_DeleteOnce == []C32_DeletedStaysGone /\ [][C32_DeleteStep]_vars

\* One caller has deleted record 1 and holds true, the other has then asked
\* for the same id and holds false.
C32_Witness ==
    \E p \in Callers, q \in Callers :
        /\ call[p].op = "deleteDocument" /\ call[q].op = "deleteDocument"
        /\ call[p].id = 1 /\ call[q].id = 1
        /\ result[p] = Returned(<<"true">>)
        /\ result[q] = Returned(<<"false">>)

\* C33 (step, removeCollection): a call that found the name listed and
\* returns, returns true and leaves the database without that collection and
\* with every other collection as it was; a call that did not find the name
\* listed returns false and changes nothing.
C33_RemoveStep ==
    \A p \in Callers :
        (pc[p] = "listed" /\ call[p].op = "removeCollection" /\ result'[p].kind = "returned")
            => LET c == call[p].collection
               IN  IF c \in local[p].collections
                   THEN /\ result'[p].value = <<"true">>
                        /\ c \notin DOMAIN db'
                        /\ DOMAIN db' = DOMAIN db \ {c}
                        /\ \A x \in DOMAIN db' : db'[x] = db[x]
                   ELSE /\ result'[p].value = <<"false">>
                        /\ db' = db

\* C33 (step, createCollection): a call that found the name listed fails and
\* changes nothing, as does every call that fails; a call that returns leaves
\* the name listed, its collection empty, and every other collection as it
\* was.
C33_CreateStep ==
    \A p \in Callers :
        (pc[p] = "listed" /\ call[p].op = "createCollection" /\ pc'[p] = "done")
            => LET c == call[p].collection
               IN  /\ c \in local[p].collections => result'[p].kind = "thrown"
                   /\ c \in DOMAIN db => result'[p].kind = "thrown"
                   /\ result'[p].kind = "thrown" => db' = db
                   /\ result'[p].kind = "returned"
                          => /\ DOMAIN db' = DOMAIN db \cup {c}
                             /\ db'[c] = <<>>
                             /\ \A x \in DOMAIN db : db'[x] = db[x]

\* C33: removeCollection returns true and the collection is no longer listed
\* when it existed, and returns false without changing anything when it did
\* not; createCollection makes the collection listed, and fails leaving the
\* database unchanged when it already exists.
C33_CollectionsContract == [][C33_RemoveStep /\ C33_CreateStep]_vars

\* The temporary collection was created, one caller has removed it and holds
\* true, the other has then tried to remove it and holds false.
C33_Witness ==
    \E p \in Callers, q \in Callers :
        /\ call[p].op = "removeCollection" /\ call[q].op = "removeCollection"
        /\ call[p].collection = TempCollection /\ call[q].collection = TempCollection
        /\ result[p] = Returned(<<"true">>)
        /\ result[q] = Returned(<<"false">>)
        /\ TempCollection \notin DOMAIN db

----------------------------------------------------------------------------
(* The cursor of the key pool *)

\* C34 (state): with a loaded pool the cursor is a position of the pool, and
\* no value that getKey() has returned is undefined.
C34_CursorInPool ==
    /\ Len(apiKeys) >= 1 => currentKeyIndex \in 0..(Len(apiKeys) - 1)
    /\ \A i \in 1..Len(issued) : issued[i] # Undefined
    /\ \A p \in Callers :
          (call[p].op = "getKey" /\ result[p].kind = "returned")
              => result[p].value # Undefined

\* C34 (step): a load that fails leaves the cursor where it was.
C34_FailedLoadStep ==
    \A p \in Callers :
        (pc[p] = "loadKeys" /\ pc'[p] = "done" /\ result'[p].kind = "thrown")
            => currentKeyIndex' = currentKeyIndex

\* C34: whenever the pool is loaded the cursor satisfies
\* 0 <= currentKeyIndex < N, so getKey never returns an undefined credential;
\* a failed load leaves the cursor at its previous value.
C34_CursorBounded == []C34_CursorInPool /\ [][C34_FailedLoadStep]_vars

\* The whole pool of several keys has been issued and the cursor is back at
\* its first position, while a call that began before the load still waits
\* for its read of the key file.
C34_Witness ==
    /\ Len(apiKeys) >= 2
    /\ Len(issued) = Len(apiKeys)
    /\ currentKeyIndex = 0
    /\ \E p \in Callers : pc[p] = "loadKeys"

\* C35 (state): with a loaded pool of N keys the cursor is the number of
\* keys issued so far modulo N: the k-th issue was at position (k - 1) mod N,
\* none twice and none skipped within a cycle.
C35_CursorCountsIssues ==
    Len(apiKeys) >= 1 => currentKeyIndex = Len(issued) % Len(apiKeys)

\* C35 (step): a step issues at most one key; the step that issues one gives
\* out the key at the cursor of the pool it leaves loaded and moves the cursor
\* by one position modulo N, and no other step moves the cursor, whether the
\* caller found the pool loaded or has just loaded it, alone or after another
\* caller's load.
C35_DrawStep ==
    IF issued' # issued
    THEN /\ Len(issued') = Len(issued) + 1
         /\ SubSeq(issued', 1, Len(issued)) = issued
         /\ Len(apiKeys') >= 1
         /\ issued'[Len(issued')] = apiKeys'[currentKeyIndex + 1]
         /\ currentKeyIndex' = (currentKeyIndex + 1) % Len(apiKeys')
    ELSE currentKeyIndex' = currentKeyIndex

\* C35: under overlapping getKey() callers the read of the key at the cursor
\* and the advance of the cursor are one step: the keys issued, in the order
\* of issue, are the round-robin sequence, also when several callers load the
\* pool concurrently.
C35_AtomicDraw == []C35_CursorCountsIssues /\ [][C35_DrawStep]_vars

\* Two callers began the initial load together; the read of one is over and
\* has issued the first of three keys, the other still waits for its read.
C35_Witness ==
    /\ Len(apiKeys) = 3
    /\ Len(issued) = 1
    /\ currentKeyIndex = 1
    /\ \E p \in Callers, q \in Callers :
          /\ pc[q] = "loadKeys"
          /\ pc[p] = "done" /\ call[p].op = "getKey" /\ result[p].kind = "returned"

----------------------------------------------------------------------------
(* Credentials drawn by the fetchers and the tools *)

NextDraws ==
    \E p \in Callers :
          \/ PullStockCall(p, "IBM")
          \/ PullNewsCall(p)
          \/ GetStockPricesCall(p, "IBM", Undefined, NoError, NoError)
          \/ GetNewsCall(p, <<"2", "0", "2", "5", "1", "2", "2", "1">>,
                            <<"2", "0", "2", "5", "1", "2", "2", "2">>,
                            Undefined, NoError, NoError)
          \/ AutoPull(p)
          \/ KeylistRead(p)
          \/ \E r \in Responses(call[p].symbol) : FetchReturn(p, r)
          \/ \E e \in CacheOutcomes : UpsertReturn(p, e)
          \/ PaceDone(p)
          \/ \E r \in NewsResponses : NewsFetchReturn(p, r)
          \/ \E e \in CacheOutcomes : NewsUpsertReturn(p, e)
          \/ NewsPaceDone(p)
          \/ Reread(p, NoError)
          \/ Return(p)

\* The fetchers and the two tools side by side: overlapping pullStock,
\* pullNews, get_stock_prices and get_news callers.
SpecDraws == Init /\ [][NextDraws]_vars

\* p's call has called a fetcher and the fetcher has returned or thrown.
FetcherOver(p) == hist[p].pulls = 1 /\ pc[p] \in {"reread", "done"}

\* C36 (a): a call never holds more than one draw or one remote request of
\* its own, it has drawn its key when its request is under way, and it has
\* no request without a drawn key.
C36_DrawBeforeRequest ==
    \A p \in Callers :
        /\ hist[p].draws <= 1 /\ hist[p].fetches <= hist[p].draws
        /\ pc[p] \in {"fetch", "newsFetch"} => hist[p].draws = 1 /\ hist[p].fetches = 0

\* C36 (b): a step moves the cursor exactly when it issues a key; it then
\* issues one key, to one call, and the cursor moves by one position of the
\* pool.
C36_DrawStep ==
    IF issued' # issued \/ currentKeyIndex' # currentKeyIndex
    THEN /\ Len(issued') = Len(issued) + 1
         /\ currentKeyIndex' = (currentKeyIndex + 1) % Len(apiKeys')
         /\ \E p \in Callers :
               /\ hist'[p].draws = hist[p].draws + 1
               /\ \A q \in Callers \ {p} : hist'[q].draws = hist[q].draws
    ELSE \A p \in Callers : hist'[p].draws <= hist[p].draws

\* C36 (c): a get_stock_prices call that found records on its first read and
\* a get_news call have drawn no key and sent no request, and the step that
\* serves them leaves the cursor and the keys issued as they were.
C36_ReadOnlyStep ==
    \A p \in Callers :
        (/\ pc[p] = "idle" /\ pc'[p] = "done"
         /\ call'[p].op \in {"get_stock_prices", "get_news"})
            => /\ currentKeyIndex' = currentKeyIndex /\ issued' = issued
               /\ apiKeys' = apiKeys
               /\ hist'[p].draws = 0 /\ hist'[p].fetches = 0

\* C36 as stated: every fetcher call that is over, successful or failed, has
\* drawn exactly one key and sent exactly one remote request.
C36_OneDrawPerFetch ==
    \A p \in Callers :
        FetcherOver(p) => hist[p].draws = 1 /\ hist[p].fetches = 1

\* C36 (d), amended: a fetcher call that is over has drawn exactly one key
\* and sent exactly one remote request, unless getKey() failed in it: then it
\* has drawn no key and sent no request.
C36_OneDrawUnlessNoKey ==
    \A p \in Callers :
        FetcherOver(p)
            => IF hist[p].fail.kind = "config"
               THEN hist[p].draws = 0 /\ hist[p].fetches = 0
               ELSE hist[p].draws = 1 /\ hist[p].fetches = 1

\* C36, amended: every pullStock or pullNews call in which getKey() succeeds
\* draws exactly one credential, before its single remote request, and that
\* draw advances the cursor by one position, whether the call then succeeds
\* or fails; a call in which getKey() fails draws none and sends no request;
\* a get_stock_prices cache hit and every get_news call leave the cursor
\* unchanged.
C36_OneDrawPerSuccessfulKey ==
    /\ [](C36_DrawBeforeRequest /\ C36_OneDrawUnlessNoKey)
    /\ [][C36_DrawStep /\ C36_ReadOnlyStep]_vars

\* One caller's pullNews has failed on its remote response after drawing the
\* first key, and the other's pullStock has then stored its series with the
\* second key: two calls over, two keys issued, the cursor back at the start.
C36_Witness ==
    \E p \in Callers, q \in Callers :
        /\ call[p].op = "pullNews" /\ pc[p] = "done" /\ result[p].kind = "thrown"
        /\ hist[p].draws = 1 /\ hist[p].fetches = 1
        /\ call[q].op = "pullStock" /\ pc[q] = "done" /\ result[q].kind = "returned"
        /\ hist[q].draws = 1 /\ hist[q].fetches = 1
        /\ issued = <<Str_K1, Str_K2>> /\ currentKeyIndex = 0

----------------------------------------------------------------------------
(* Reads after a pull that failed partway *)

\* C37 (step): an undated get_stock_prices call for a symbol whose partition
\* holds records, however few and however they came to be there, whose read
\* the store answers, ends in the same step: it returns the stored records,
\* latest first, as cache-sourced, it has called no fetcher, and the step
\* leaves every partition, the keys issued and the cursor as they were, so
\* the partition has the same dates after the call as before.
C37_PartialHitStep ==
    \A p \in Callers :
        (/\ pc[p] = "idle" /\ call'[p].op = "get_stock_prices" /\ ~Truthy(call'[p].date)
         /\ db[StockCollection(call'[p].symbol)] # <<>>
         /\ ~(result'[p].kind = "tool" /\ result'[p].isError))
            => /\ pc'[p] = "done"
               /\ CacheSourced(result'[p])
               /\ result'[p].body.data.items = FindLatest(db[StockCollection(call'[p].symbol)])
               /\ hist'[p].pulls = 0 /\ hist'[p].fetches = 0 /\ hist'[p].draws = 0
               /\ db' = db /\ issued' = issued /\ currentKeyIndex' = currentKeyIndex

\* C37: after a pullStock(S) that failed partway and left records stored,
\* every later undated get_stock_prices(S) finds those records on its first
\* read, returns them as cache-sourced and triggers no fetch, so it does not
\* fill in the dates that were not stored.
C37_PartialNeverFilled == [][C37_PartialHitStep]_vars

\* A pullStock of IBM has thrown in its loop after storing the first of the
\* two days it fetched; the undated get_stock_prices of IBM that followed
\* holds that one record as cache-sourced, and the second day is not stored.
C37_Witness ==
    \E p \in Callers, q \in Callers :
        /\ call[q].op = "pullStock" /\ call[q].symbol = "IBM" /\ pc[q] = "done"
        /\ result[q].kind = "thrown" /\ hist[q].fail.kind = "cache"
        /\ IsQuery(p) /\ Undated(p) /\ call[p].symbol = "IBM" /\ pc[p] = "done"
        /\ CacheSourced(result[p]) /\ hist[p].pulls = 0
        /\ Len(result[p].body.data.items) = 1
        /\ calls = 2
        /\ DatesOf(db[StockCollection("IBM")]) = {Date_1222}

----------------------------------------------------------------------------
(* The count of pullNews *)

\* C38 (step): when pullNews returns, the number it returns is the number of
\* entries of the feed.  For a pull that ran alone, the news partition then
\* holds one record for each distinct time stamp of the feed, which is the
\* record of the last entry of the feed with that time stamp, and the records
\* with other time stamps are the ones found: the partition has grown by the
\* number of time stamps that were new, which is below the number returned
\* when the feed repeats a time stamp.
C38_CountStep ==
    \A p \in Callers :
        (call[p].op = "pullNews" /\ pc[p] = "newsPace" /\ pc'[p] = "done")
            => LET E == hist[p].series
                   before == hist[p].before
                   after == db'[NewsCollection]
                   times == {E[i].time_published : i \in 1..Len(E)}
                   last(t) == CHOOSE i \in 1..Len(E) :
                                 /\ E[i].time_published = t
                                 /\ \A j \in (i + 1)..Len(E) : E[j].time_published # t
               IN  /\ result'[p] = Returned(Len(E))
                   /\ hist[p].clean =>
                         /\ \A t \in times :
                               {after[k] : k \in {k \in 1..Len(after) :
                                                     after[k].time_published = t}}
                                  = {ExpectedNewsDoc(E[last(t)])}
                         /\ \A t \in times :
                               Cardinality({k \in 1..Len(after) :
                                               after[k].time_published = t}) = 1
                         /\ Len(after) = Cardinality(times)
                               + Cardinality({k \in 1..Len(before) :
                                                 before[k].time_published \notin times})
                         /\ Len(after) - Len(before) <= Cardinality(times)
                         /\ Cardinality(times) <= Len(E)

\* C38: the count returned by pullNews is the number of entries in the feed,
\* not the number of distinct records stored: when two articles of the feed
\* carry the same time_published both are counted, one record for that time
\* stamp remains in the news partition, and it is the one that comes later in
\* the feed.
C38_CountsFeedEntries == [][C38_CountStep]_vars

\* The only call, a pullNews of a feed of two articles with the same time
\* stamp, has returned 2, and the news partition holds one record: that of
\* the second article.
C38_Witness ==
    \E p \in Callers :
        /\ call[p].op = "pullNews" /\ pc[p] = "done" /\ calls = 1
        /\ result[p] = Returned(2)
        /\ db[NewsCollection] = <<ExpectedNewsDoc(Art_Update)>>

====
